---- MODULE Spec2Model ----
(***************************************************************************)
(* Model of the MW-DeviceBox hardware-session subsystem:                   *)
(*   - BarcodeScanner (app/devices/barcode_scanner.py): background worker  *)
(*     with initial discovery, idle loop, active-session cycle, read loop; *)
(*     session slot guarded by a lock; start()/stop().                     *)
(*   - PosPollingService (app/services/pos_polling.py): poll worker that   *)
(*     drives the scanner's session slot and forwards barcodes.            *)
(* Threads are modelled by program counters; every blocking call (sleep,   *)
(* timed read, HTTP call, power command) is one step.                      *)
(*                                                                         *)
(* Specifications (defined at the end):                                    *)
(*   Spec       the scanner, its device and arbitrary callers of the       *)
(*              session contract, with start() and stop();                 *)
(*   LiveSpec   Spec with a fairly scheduled worker;                       *)
(*   PollSpec   the polling service driving the session slot;              *)
(*   SystemSpec both workers side by side as main.py runs them;            *)
(*   ExitSpec   either side with fairly scheduled workers;                 *)
(*   SlotSpec   concurrent activate_session/deactivate_session calls, one  *)
(*              statement at a time.                                       *)
(***************************************************************************)
EXTENDS Integers, Sequences, FiniteSets, TLC

\* ---------------------------------------------------------------- bounds
\* Longest run of characters the environment types before an Enter.
MaxChars == 2
MaxRun == 5
\* Most reports the opened device file holds at a time.
MaxQueued == 2
\* usb_discovery.py:88 range(10); the model's longest path has two
\* directories more.
TRAVERSAL_DEPTH == 10
ChainLength == TRAVERSAL_DEPTH + 2

\* ------------------------------------------------------ program constants
\* barcode_scanner.py:42 MAX_DISCOVERY_ATTEMPTS
MAX_DISCOVERY_ATTEMPTS == 5
\* barcode_scanner.py:199 range(10) of _initial_discovery
INITIAL_DISCOVERY_ATTEMPTS == 10
\* hid_reader.py:50 SCANCODE_ENTER = 0x28
SCANCODE_ENTER == 40
\* hid_reader.py:53 SHIFT_MASK = 0x22 (bit 1 = left shift, bit 5 = right shift)
SHIFT_MASK == 34

None == "None"
SessionIds == {"S1", "S2"}
\* usb_discovery.py:33-40: the one registered scanner, as discovery reports it.
Discovered ==
    [hidraw_path |-> "/dev/hidraw0", name |-> "Datalogic Touch 65",
     usb_device_id |-> "1-1"]
DefaultDeviceName == "Barcode Scanner"
\* The local `entry` before any barcode was completed.
NoEntry == [barcode |-> <<>>, device |-> None]

VARIABLES
    \* --- BarcodeScanner fields (barcode_scanner.py:59-76)
    running,            \* _running
    connected,          \* _connected
    device_path,        \* _device_path
    device_name,        \* _device_name
    usb_device_id,      \* _usb_device_id
    power_state,        \* _power_state: "unknown" | "on" | "off"
    session_active,     \* _session_active
    session_id,         \* _session_id
    on_barcode,         \* _on_barcode: None or the closure installed
    \* --- scanner worker thread (locals of _main_loop and its callees)
    thread,             \* position of the worker ("none" before start())
    attempt,            \* loop index of the discovery loops
    exc,                \* an exception is propagating out of _read_barcodes
    barcode_chars,      \* accumulator of _read_barcodes
    entry,              \* ScanEntry built at Enter, or None
    callback,           \* local `callback` of _read_barcodes
    \* --- PosPollingService fields (pos_polling.py:52-59)
    pos_running,        \* _running
    status,             \* _status
    status_detail,      \* _status_detail, by category
    current_session_id, \* _current_session_id
    \* --- poll worker thread (locals of _poll_loop)
    pos_thread,         \* position of the poll worker ("none" before start())
    active,             \* local `active`
    poll_session_id,    \* local `session_id`, the cell the lambda of line 152 reads
    pos,                \* local `pos`: the poll_interval of the settings snapshot
    \* --- SettingsStore
    configured,         \* POS url and token are both set
    poll_interval,      \* pos.poll_interval, in seconds
    stored_method,      \* usb_power.method
    \* --- UsbPowerController fields (usb_power.py:35-36) and its environment
    method,             \* _method
    uhubctl_available,  \* _uhubctl_available: None until probed
    on_path,            \* shutil.which finds uhubctl
    bound,              \* the scanner is bound to the kernel's usb driver
    skipped,            \* a key release or an unmapped key arrived in the run
                        \* that `typed` holds (history)
    queue,              \* the reports the opened device file holds, oldest
                        \* first, each with whether it was there at open()
    flush_call,         \* the flush_buffer call: reports queued at open(),
                        \* the count so far, whether it has returned; and
                        \* how many later reports it took, whether the read
                        \* loop got a report queued at open() (history)
    idle_off,           \* what the idle branch of this loop iteration did
                        \* about power: "none" (not there yet), "skipped",
                        \* or the power_off call's result "ok" / "failed"
    sysfs,              \* /sys/class/hidraw: the state of the root and, per
                        \* entry, its link and the directories above it
    found,              \* the last find_barcode_scanner call: what
                        \* discover_devices returned or that it raised, and
                        \* the scanner picked (history)
    decoded,            \* the last _decode_report call: the report's modifier
                        \* and keycode and the character returned (history)
    test_result,        \* the last test_connection call: the response it got
                        \* and what it returned or that it raised (history)
    power_call,         \* the last power_on/power_off call: arguments, what
                        \* the controller did and returned (history)
    \* --- the lifespan of main.py: where it is with the scanner's start()/stop()
    \*     and with the polling service's start()/stop()
    main,
    pos_main,
    \* --- environment
    dev_present,        \* the scanner is visible in sysfs and /dev
    observed,           \* which side a behaviour follows step by step (see the
                        \* specifications at the end)
    \* --- the scanner's _lock and the threads calling the session contract
    lock,               \* None, or the caller inside `with self._lock`
    caller,             \* per caller: its position in activate_session or
                        \* deactivate_session and the session id it passes
    \* --- history variables (observations, not program state)
    cycle_on,           \* the worker invoked power_on in this cycle, no power_off since
    need_off,           \* _read_barcodes was entered, no power_off since
    last_power_op,      \* last power operation issued: "none" | "on" | "off"
    last_off_ok,        \* what the last power_off call returned
    slot_written,       \* the session slot was written since the last report was read
    callback_removed,   \* the slot was written after the worker fetched `callback`
    last_call,          \* the last call made on the slot: "activate" | "deactivate",
                        \* "none" once a poll iteration ended without a call
    since_deactivate,   \* "waiting": an active session was deactivated and no
                        \* power_off was invoked since; "done": one was
    typed,              \* characters the device sent since the previous Enter
    last_enter,         \* the last report read was an Enter
    short_read,         \* the read just made returned short or empty data and
                        \* the worker is back at the head of the read loop
    delivered,          \* callback invocations since the last report was read
    callback_raised,    \* the last callback invoked in this read loop raised
    iteration,          \* what the poll iteration that just ended saw and did
    \* --- one service (scanner or polling) whose start() and stop() are
    \*     called any number of times, in any order
    life_running,       \* the service's _running
    life_threads,       \* every worker thread start() created, oldest first:
                        \* "head" (about to test _running), "busy" (inside
                        \* an iteration) or "done"; the last is self._thread
    life_main,          \* the caller of start()/stop(): "idle" or, inside
                        \* stop(), "join"
    life_last,          \* what the last start()/stop() call did (history)
    \* --- the hardware the power controller acts on
    hub,                \* per uhubctl location: its ports are powered
    on_effect,          \* a power_on switched a location on or bound the
                        \* device since the last power_off that returned
                        \* True (history)
    \* --- wifi_manager.py: the WifiManager, its two threads and the host
    ap_active,          \* _ap_active
    server,             \* _server is not None
    connecting,         \* _connecting
    consecutive_failures,
    wifi_main,          \* where run() is in its loop
    wifi_thread,        \* where the wifi-connect thread is, "none" without one
    wifi_connected,     \* what nmcli reports for the WiFi device
    gateway,            \* the gateway container is running (it holds port 80)
    failed_checks       \* connectivity checks of run() that failed in a row
                        \* (history)

deviceVars == <<connected, device_path, device_name, usb_device_id>>
sessionVars == <<session_active, session_id, on_barcode>>
slotVars ==
    <<sessionVars, slot_written, callback_removed, last_call, since_deactivate>>
sideVars == <<observed, lock, caller>>
powerVars ==
    <<power_state, last_power_op, last_off_ok, cycle_on, need_off>>
ctlVars == <<thread, attempt, exc>>
readVars ==
    <<barcode_chars, entry, callback, typed, last_enter, short_read,
      callback_raised, delivered>>
scannerVars == <<running, deviceVars, powerVars, ctlVars, readVars, dev_present>>
pollVars ==
    <<pos_running, status, status_detail, current_session_id, pos_thread, active,
      poll_session_id, pos, iteration>>
posSettings == <<configured, poll_interval>>
usbVars == <<stored_method, method, uhubctl_available, on_path, bound, power_call>>
discoveryVars == <<sysfs, found>>
flushVars == <<queue, flush_call>>
lifeVars == <<life_running, life_threads, life_main, life_last>>
hubVars == <<hub, on_effect>>
wifiVars ==
    <<ap_active, server, connecting, consecutive_failures, wifi_main,
      wifi_thread, wifi_connected, gateway, failed_checks>>
apartVars == <<lifeVars, hubVars, wifiVars>>
calledVars ==
    <<test_result, skipped, decoded, discoveryVars, flushVars, apartVars>>
directVars == <<calledVars, idle_off>>
configVars == <<posSettings, usbVars, directVars>>
vars == <<scannerVars, slotVars, pollVars, configVars, main, pos_main, sideVars>>

\* ------------------------------------------------------------ HID decoding
\* hid_reader.py:21-47: the part of the two scancode tables the model's
\* reports use: 0x04 a/A, 0x08 e/E, 0x0B h/H, 0x0F l/L, 0x12 o/O, 0x1E 1/!,
\* 0x2C space/space.  Every other scancode is unmapped here (char_map.get
\* returns None).
SCANCODE_MAP(scancode) ==
    CASE scancode = 4 -> "a"
      [] scancode = 8 -> "e"
      [] scancode = 11 -> "h"
      [] scancode = 15 -> "l"
      [] scancode = 18 -> "o"
      [] scancode = 30 -> "1"
      [] scancode = 44 -> " "
      [] OTHER -> None

SCANCODE_MAP_SHIFTED(scancode) ==
    CASE scancode = 4 -> "A"
      [] scancode = 8 -> "E"
      [] scancode = 11 -> "H"
      [] scancode = 15 -> "L"
      [] scancode = 18 -> "O"
      [] scancode = 30 -> "!"
      [] scancode = 44 -> " "
      [] OTHER -> None

\* modifier & SHIFT_MASK, for a byte: bit 1 (0x02) or bit 5 (0x20) is set.
BitSet(byte, bit) == (byte \div (2 ^ bit)) % 2 = 1
MaskBits(mask) == {b \in 0..7 : BitSet(mask, b)}
\* A variant of Shifted that looks at the left shift bit only.
ShiftedLeftOnly(modifier) == BitSet(modifier, 1)

Shifted(modifier) == \E b \in MaskBits(SHIFT_MASK) : BitSet(modifier, b)

\* barcode_scanner.py:327-329: the character a report contributes, or None.
DecodeChar(report) ==
    IF Shifted(report.modifier) THEN SCANCODE_MAP_SHIFTED(report.scancode)
    ELSE SCANCODE_MAP(report.scancode)

\* hid_reader.py:56-79 _decode_report on a full report: None for a key
\* release and for Enter, else the table's entry.
decode_report(report) ==
    IF report.scancode = 0 THEN None
    ELSE IF report.scancode = SCANCODE_ENTER THEN None
    ELSE DecodeChar(report)

NoDecode == [modifier |-> 0, scancode |-> 0, char |-> None, called |-> FALSE]

\* ---- usb_discovery.py: discovery over a sysfs tree.
\* usb_discovery.py:33-40 KNOWN_DEVICES.
KNOWN_DEVICES ==
    { [vendor_id |-> "05f9", product_id |-> "2214",
       name |-> "Datalogic Touch 65", device_type |-> "barcode_scanner"] }

\* The states of an attribute file other than its text.
Absent == "<absent>"
ReadError == "<OSError>"
DecodeError == "<UnicodeDecodeError>"

\* str.strip() and str.lower() on the texts the model's files hold.
StripText(text) ==
    CASE text = "05F9\n" -> "05F9"
      [] text = "2214\n" -> "2214"
      [] OTHER -> text

Lower(text) ==
    CASE text = "05F9" -> "05f9"
      [] text = "05F9\n" -> "05f9\n"
      [] OTHER -> text

\* usb_discovery.py:55-60 _read_sysfs_attr: the stripped text, None when
\* read_text raises an OSError; any other exception of read_text leaves the
\* function.
read_sysfs_attr(file) ==
    IF file = ReadError THEN [kind |-> "none", text |-> ""]
    ELSE IF file = DecodeError THEN [kind |-> "raise", text |-> ""]
    ELSE [kind |-> "text", text |-> StripText(file)]

NoInfo == [kind |-> "none", vendor_id |-> "", product_id |-> "", usb_device_id |-> <<>>]
InfoRaised == [kind |-> "raise", vendor_id |-> "", product_id |-> "", usb_device_id |-> <<>>]

\* Directory names are sequences of characters.
Port112 == <<"1", "-", "1", ".", "2">>
Port31 == <<"3", "-", "1">>
Interface == <<"1", "-", "1", ".", "2", ":", "1", ".", "0">>
HidDir == <<"0", "0", "0", "3", ":", "0", "5", "F", "9">>
DirName == <<"d", "i", "r">>

IsDigit(c) == c \in {"0", "1", "2", "3", "4", "5", "6", "7", "8", "9"}

\* usb_discovery.py:18 _USB_DEVICE_ID_RE.match(name) for ^\d+-[\d.]+$ : one
\* or more digits, a hyphen, one or more digits or dots, and then the end
\* of the name or its final newline.
USB_DEVICE_ID_RE_match(name) ==
    LET n == IF name # <<>> /\ name[Len(name)] = "\n"
             THEN Len(name) - 1 ELSE Len(name)
    IN \E k \in 2..(n - 1) :
         /\ name[k] = "-"
         /\ \A i \in 1..(k - 1) : IsDigit(name[i])
         /\ \A i \in (k + 1)..n : IsDigit(name[i]) \/ name[i] = "."

\* usb_discovery.py:118-126: the loop of _find_usb_device_id_from_path in
\* its round `round` (from 0); chain[start] is `path`.
RECURSIVE FromPath(_, _, _)
FromPath(chain, start, round) ==
    IF round >= TRAVERSAL_DEPTH \/ start + round > Len(chain)
    THEN chain[start].name
    ELSE IF USB_DEVICE_ID_RE_match(chain[start + round].name)
    THEN chain[start + round].name
    ELSE FromPath(chain, start, round + 1)

\* A variant of _find_usb_device_id_from_path that looks at the parent only.
find_usb_device_id_from_pathParentOnly(chain, start) ==
    IF start + 1 <= Len(chain) /\ USB_DEVICE_ID_RE_match(chain[start + 1].name)
    THEN chain[start + 1].name
    ELSE chain[start].name

\* usb_discovery.py:112-126 _find_usb_device_id_from_path.
find_usb_device_id_from_path(chain, start) == FromPath(chain, start, 0)

\* usb_discovery.py:87-107: the loop of _find_usb_info_for_hidraw from its
\* i-th round; chain[1] is the resolved path, chain[i + 1] its i-th ancestor,
\* the last one the filesystem root.
RECURSIVE WalkUp(_, _)
WalkUp(chain, i) ==
    IF i > TRAVERSAL_DEPTH \/ i > Len(chain) THEN NoInfo
    ELSE
      LET level == chain[i]
          vendor == read_sysfs_attr(level.vendor)
          product == read_sysfs_attr(level.product)
      IN IF level.vendor # Absent /\ level.product # Absent
         THEN IF vendor.kind = "raise" THEN InfoRaised
              ELSE IF product.kind = "raise" THEN InfoRaised
              ELSE IF /\ vendor.kind = "text" /\ vendor.text # ""
                      /\ product.kind = "text" /\ product.text # ""
              THEN [kind |-> "info", vendor_id |-> Lower(vendor.text),
                    product_id |-> Lower(product.text),
                    usb_device_id |->
                      IF USB_DEVICE_ID_RE_match(level.name) THEN level.name
                      ELSE find_usb_device_id_from_path(chain, i)]
              ELSE WalkUp(chain, i + 1)
         ELSE WalkUp(chain, i + 1)

\* usb_discovery.py:63-109 _find_usb_info_for_hidraw.
find_usb_info_for_hidraw(e) ==
    IF e.link = "broken" THEN NoInfo
    ELSE IF e.link = "resolve_error" THEN NoInfo
    ELSE WalkUp(e.chain, 1)

\* usb_discovery.py:162 f"/dev/{hidraw_name}".
DevPath(hidraw_name) ==
    CASE hidraw_name = "hidraw0" -> "/dev/hidraw0"
      [] hidraw_name = "hidraw1" -> "/dev/hidraw1"

\* usb_discovery.py:147 sorted(SYSFS_HIDRAW.iterdir()).
HidrawNames == <<"hidraw0", "hidraw1">>

NoDiscovery == [called |-> FALSE, raised |-> FALSE, devices |-> <<>>,
                scanner |-> None]

\* usb_discovery.py:151-177: the loop of discover_devices from the i-th
\* name on, `discovered` being the list so far.
RECURSIVE DiscoverFrom(_, _, _)
DiscoverFrom(tree, i, discovered) ==
    IF i > Len(HidrawNames) THEN [raised |-> FALSE, devices |-> discovered]
    ELSE
      LET hidraw_name == HidrawNames[i]
          info == find_usb_info_for_hidraw(tree.entries[hidraw_name])
          known == {d \in KNOWN_DEVICES : /\ d.vendor_id = info.vendor_id
                                          /\ d.product_id = info.product_id}
      IN IF hidraw_name \notin DOMAIN tree.entries
         THEN DiscoverFrom(tree, i + 1, discovered)
         ELSE IF info.kind = "raise" THEN [raised |-> TRUE, devices |-> <<>>]
         ELSE IF info.kind = "none" \/ known = {}
         THEN DiscoverFrom(tree, i + 1, discovered)
         ELSE DiscoverFrom(tree, i + 1,
                Append(discovered,
                  LET d == CHOOSE d \in known : TRUE
                  IN [hidraw_path |-> DevPath(hidraw_name),
                      vendor_id |-> info.vendor_id,
                      product_id |-> info.product_id,
                      name |-> d.name, device_type |-> d.device_type,
                      usb_device_id |-> info.usb_device_id]))

\* usb_discovery.py:129-184 discover_devices on a tree.  Path.exists() gives False
\* for a missing root; for a root whose stat fails with EACCES it re-raises
\* (pathlib up to Python 3.11) or gives False (os.path.exists, from 3.12).
DiscoverDevices(tree, exists_reraises) ==
    IF tree.root = "absent" THEN [raised |-> FALSE, devices |-> <<>>]
    ELSE IF tree.root = "unsearchable"
    THEN [raised |-> exists_reraises, devices |-> <<>>]
    ELSE IF tree.root = "unlistable" THEN [raised |-> FALSE, devices |-> <<>>]
    ELSE DiscoverFrom(tree, 1, <<>>)

\* usb_discovery.py:187-197 find_barcode_scanner on the list returned.
FirstScanner(devices) ==
    LET scanners == {i \in 1..Len(devices) :
                       devices[i].device_type = "barcode_scanner"}
    IN IF scanners = {} THEN None
       ELSE devices[CHOOSE i \in scanners : \A j \in scanners : i <= j].hidraw_path

\* One level of a chain: the directory's name and its two attribute files.
NoIds == [name |-> DirName, vendor |-> Absent, product |-> Absent]
LevelKinds ==
    [known |-> [name |-> Port112, vendor |-> "05f9", product |-> "2214"],
     upper |-> [name |-> Port112, vendor |-> "05F9\n", product |-> "2214\n"],
     other |-> [name |-> Port112, vendor |-> "046d", product |-> "c31c"],
     half |-> [name |-> Port112, vendor |-> "05f9", product |-> Absent],
     empty |-> [name |-> Port112, vendor |-> "", product |-> "2214"],
     unreadable |-> [name |-> Port112, vendor |-> ReadError, product |-> "2214"],
     undecodable |-> [name |-> Port112, vendor |-> DecodeError, product |-> "2214"]]

\* A chain of `length` directories with id files at the levels of `at`.
Chain(length, at) ==
    [i \in 1..length |-> IF i \in DOMAIN at THEN LevelKinds[at[i]] ELSE NoIds]

\* The hidraw entries of the model's trees: a broken link, a link that
\* cannot be resolved, paths without id files, with id files at one level
\* (the path itself, its 4th, 9th or 10th ancestor), and with id files at
\* two adjacent levels of which the farther is the registered scanner.
HidrawEntries ==
    {[link |-> l, chain |-> <<>>] : l \in {"broken", "resolve_error"}}
    \cup {[link |-> "ok", chain |-> Chain(n, <<>>)] : n \in {3, ChainLength}}
    \cup {[link |-> "ok", chain |-> Chain(ChainLength, d :> k)] :
             d \in {1, 5, TRAVERSAL_DEPTH, TRAVERSAL_DEPTH + 1},
             k \in DOMAIN LevelKinds}
    \cup {[link |-> "ok", chain |-> Chain(ChainLength, (d :> k) @@ (d + 1 :> "known"))] :
             d \in {5, TRAVERSAL_DEPTH},
             k \in {"other", "half", "empty", "unreadable"}}

\* A chain with the registered scanner's id files in its d-th directory and
\* the directories named by `names`.
NamedChain(d, names) ==
    [i \in 1..ChainLength |->
       [name |-> IF i \in DOMAIN names THEN names[i] ELSE DirName,
        vendor |-> IF i = d THEN "05f9" ELSE Absent,
        product |-> IF i = d THEN "2214" ELSE Absent]]

\* Entries whose id files are in the first or second directory of the path,
\* that directory named like a port, an interface or a HID device, and no,
\* one or two ancestors named like a port: the parent, the 9th or the 10th
\* ancestor, or one of these and the next.
TopologyEntries ==
    {[link |-> "ok", chain |-> NamedChain(d, d :> n)] :
        d \in {1, 2}, n \in {Port112, Port31, Interface, HidDir}}
    \cup {[link |-> "ok", chain |-> NamedChain(d, (d :> n) @@ (d + a :> p))] :
             d \in {1, 2}, n \in {Port112, Interface, HidDir},
             a \in {1, TRAVERSAL_DEPTH - 1, TRAVERSAL_DEPTH},
             p \in {Port112, Port31, Interface}}
    \cup {[link |-> "ok",
           chain |-> NamedChain(d, (d :> n) @@ (d + a :> p) @@ (d + a + 1 :> q))] :
             d \in {1}, n \in {Interface, HidDir},
             a \in {1, TRAVERSAL_DEPTH - 1},
             p \in {Port112, Interface}, q \in {Port31}}

NoTree == [root |-> "absent", entries |-> <<>>]

Trees ==
    {[root |-> r, entries |-> <<>>] :
        r \in {"absent", "unsearchable", "unlistable", "listable"}}
    \cup {[root |-> "listable", entries |-> (n :> e)] :
             n \in {"hidraw0", "hidraw1"}, e \in HidrawEntries}
    \cup {[root |-> "listable", entries |-> ("hidraw0" :> e0) @@ ("hidraw1" :> e1)] :
             e0 \in HidrawEntries, e1 \in HidrawEntries}

\* usb_discovery.py:187-197 find_barcode_scanner called once on the tree.
Discover ==
    /\ ~found.called
    /\ \E exists_reraises \in BOOLEAN :
         LET r == DiscoverDevices(sysfs, exists_reraises)
         IN found' = [called |-> TRUE, raised |-> r.raised,
                      devices |-> r.devices,
                      scanner |-> IF r.raised THEN None
                                  ELSE FirstScanner(r.devices)]
    /\ UNCHANGED <<scannerVars, slotVars, pollVars, posSettings, usbVars,
                   test_result, skipped, decoded, sysfs, apartVars, flushVars, idle_off,
                   main, pos_main, sideVars>>

\* flush_buffer has not been called.
NoFlush == [stale |-> 0, count |-> 0, late |-> 0, returned |-> FALSE,
            stale_read |-> FALSE]

\* str.strip() on a sequence of characters (only the space of the tables is
\* whitespace).
RECURSIVE LStrip(_)
LStrip(s) == IF s # <<>> /\ Head(s) = " " THEN LStrip(Tail(s)) ELSE s
RECURSIVE RStrip(_)
RStrip(s) ==
    IF s # <<>> /\ s[Len(s)] = " " THEN RStrip(SubSeq(s, 1, Len(s) - 1)) ELSE s
Strip(s) == RStrip(LStrip(s))

\* ---------------------------------------------------- USB power controller
\* usb_power.py:61-103: what power_on/power_off can return, by method.
\* `hw_ok` is whether the sysfs write / hub command succeeded.
Methods == {"bind_unbind", "uhubctl", "none"}
PowerResult(m, id, hw_ok) ==
    CASE m = "none" -> TRUE
      [] m = "uhubctl" -> hw_ok
      [] OTHER -> id # None /\ hw_ok
PowerResults(id) == {PowerResult(m, id, h) : m \in Methods, h \in BOOLEAN}

\* usb_power.py:23 _RPI5_UHUBCTL_LOCATIONS.
Locations == <<"1", "3">>

\* Topology ids a caller passes: none known, an empty string, a real one.
TopologyIds == {None, "", "1-1.2"}

\* How the write to the driver's bind/unbind file ends: it succeeds, it fails
\* with ENODEV ("No such device": the device is already in the target state)
\* or with another OSError.  `on` is the state the write asks for.
WriteOutcomes(on) == IF bound = on THEN {"ENODEV", "EACCES"} ELSE {"ok", "EACCES"}

\* How one uhubctl command ends: return code 0, another return code, or
\* subprocess.run raising (timeout, OSError).
CommandOutcomes == {"ok", "rc", "raised"}

NothingDone == [result |-> FALSE, writes |-> <<>>, commands |-> <<>>]

\* A variant of SysfsWrite for which only a write that went through counts.
SysfsWriteStrict(file, id, w) ==
    [result |-> (w = "ok"), writes |-> <<[file |-> file, id |-> id]>>,
     commands |-> <<>>]

\* usb_power.py:107-134 _bind / _unbind: write the id to the control file;
\* an OSError whose text holds "No such device" counts as success.
SysfsWrite(file, id, w) ==
    [result |-> (w = "ok" \/ w = "ENODEV"),
     writes |-> <<[file |-> file, id |-> id]>>, commands |-> <<>>]

\* usb_power.py:148-169: the loop over the locations from index i on, `acc`
\* holding `success` and the commands run so far.
RECURSIVE UhubctlLoop(_, _, _, _)
UhubctlLoop(i, action, outs, acc) ==
    IF i > Len(Locations) THEN acc
    ELSE UhubctlLoop(i + 1, action, outs,
           [result |-> (acc.result /\ outs[i] = "ok"), writes |-> <<>>,
            commands |-> Append(acc.commands,
                                [location |-> Locations[i], action |-> action])])

\* A variant of uhubctl_power that gives up at the first failing location.
RECURSIVE UhubctlLoopBreaking(_, _, _, _)
UhubctlLoopBreaking(i, action, outs, acc) ==
    IF i > Len(Locations) \/ ~acc.result THEN acc
    ELSE UhubctlLoopBreaking(i + 1, action, outs,
           [result |-> (outs[i] = "ok"), writes |-> <<>>,
            commands |-> Append(acc.commands,
                                [location |-> Locations[i], action |-> action])])
uhubctl_powerBreaking(on, available, outs) ==
    IF ~available THEN NothingDone
    ELSE UhubctlLoopBreaking(1, IF on THEN "1" ELSE "0", outs,
                             [result |-> TRUE, writes |-> <<>>, commands |-> <<>>])

\* usb_power.py:138-171 _uhubctl_power.
uhubctl_power(on, available, outs) ==
    IF ~available THEN NothingDone
    ELSE UhubctlLoop(1, IF on THEN "1" ELSE "0", outs,
                     [result |-> TRUE, writes |-> <<>>, commands |-> <<>>])

\* usb_power.py:51-59 is_uhubctl_available: the cached answer, or the PATH
\* lookup when nothing is cached.
is_uhubctl_available ==
    IF uhubctl_available = None
    THEN (IF on_path THEN "yes" ELSE "no")
    ELSE uhubctl_available

\* A variant of power that treats the method "none" like bind_unbind.
powerWithoutNone(on, m, id, available, w, outs) ==
    IF m = "uhubctl" THEN uhubctl_power(on, available, outs)
    ELSE IF id = None \/ id = "" THEN NothingDone
    ELSE SysfsWrite(IF on THEN "bind" ELSE "unbind", id, w)

\* usb_power.py:61-103 power_on (on = TRUE) / power_off (on = FALSE) with
\* _method = m.
power(on, m, id, available, w, outs) ==
    IF m = "none" THEN [result |-> TRUE, writes |-> <<>>, commands |-> <<>>]
    ELSE IF m = "uhubctl" THEN uhubctl_power(on, available, outs)
    ELSE IF id = None \/ id = "" THEN NothingDone
    ELSE SysfsWrite(IF on THEN "bind" ELSE "unbind", id, w)

NoPowerCall ==
    [op |-> "none", id |-> None, method |-> "none", stored |-> "none",
     cached |-> None, on_path |-> FALSE, was_bound |-> FALSE, w |-> "ok",
     outs |-> <<"ok", "ok">>, result |-> TRUE, writes |-> <<>>, commands |-> <<>>]

\* One call of power_on or power_off on the controller.
PowerCall ==
    \E on \in BOOLEAN, id \in TopologyIds,
       outs \in [1..Len(Locations) -> CommandOutcomes] :
      \E w \in WriteOutcomes(on) :
      LET r == power(on, method, id, is_uhubctl_available = "yes", w, outs) IN
      /\ uhubctl_available' =
           IF method = "uhubctl" THEN is_uhubctl_available ELSE uhubctl_available
      /\ bound' = IF r.writes # <<>> /\ w = "ok" THEN on ELSE bound
      /\ power_call' =
           [op |-> IF on THEN "on" ELSE "off", id |-> id, method |-> method,
            stored |-> stored_method, cached |-> uhubctl_available,
            on_path |-> on_path, was_bound |-> bound, w |-> w, outs |-> outs,
            result |-> r.result, writes |-> r.writes, commands |-> r.commands]
      /\ UNCHANGED <<stored_method, method, on_path>>
      /\ UNCHANGED <<scannerVars, slotVars, pollVars, posSettings, directVars, main, pos_main,
                     sideVars>>

\* settings_store.py:143-161 update_usb_power: the stored method replaced, an
\* unknown one by bind_unbind.
UpdateUsbPower ==
    /\ \E m \in Methods \cup {"bogus"} :
         stored_method' = IF m \in Methods THEN m ELSE "bind_unbind"
    /\ stored_method' # stored_method
    /\ UNCHANGED <<method, uhubctl_available, on_path, bound, power_call>>
    /\ UNCHANGED <<scannerVars, slotVars, pollVars, posSettings, directVars, main, pos_main,
                   sideVars>>

\* uhubctl is installed or removed.
PathChanges ==
    /\ on_path' = ~on_path
    /\ UNCHANGED <<stored_method, method, uhubctl_available, bound, power_call>>
    /\ UNCHANGED <<scannerVars, slotVars, pollVars, posSettings, directVars, main, pos_main,
                   sideVars>>

\* barcode_scanner.py:343-350 _power_on, with outcome ok.
PowerOn(ok) ==
    /\ power_state' = IF ok THEN "on" ELSE power_state
    /\ last_power_op' = "on"
    /\ cycle_on' = TRUE
    /\ UNCHANGED <<need_off, last_off_ok, since_deactivate>>

\* barcode_scanner.py:352-359 _power_off, with outcome ok.
PowerOff(ok) ==
    /\ power_state' = IF ok THEN "off" ELSE power_state
    /\ last_power_op' = "off"
    /\ last_off_ok' = ok
    /\ cycle_on' = FALSE
    /\ need_off' = FALSE
    /\ since_deactivate' =
         IF since_deactivate = "waiting" THEN "done" ELSE since_deactivate

NoPower ==
    UNCHANGED <<power_state, last_power_op, last_off_ok, cycle_on, need_off,
                since_deactivate>>

\* ------------------------------------------------------------ session slot
\* Positions of the worker inside the read loop of _read_barcodes.
ReadLoop == {"read_head", "read", "fetch", "invoke"}

\* The closure a caller installs is identified by the session id it was
\* created for.
Closure(sid) == sid

\* barcode_scanner.py:110-120 activate_session: the three writes under _lock.
activate_session(sid, cb) ==
    /\ session_id' = sid
    /\ on_barcode' = cb
    /\ session_active' = TRUE
    /\ slot_written' = (thread \in ReadLoop)
    /\ callback_removed' = (thread = "invoke")
    /\ last_call' = "activate"
    /\ since_deactivate' = "none"

\* barcode_scanner.py:122-130 deactivate_session.
deactivate_session ==
    /\ session_active' = FALSE
    /\ session_id' = None
    /\ on_barcode' = None
    /\ slot_written' = (thread \in ReadLoop)
    /\ callback_removed' = (thread = "invoke")
    /\ last_call' = "deactivate"
    /\ since_deactivate' = IF session_active THEN "waiting" ELSE since_deactivate

\* Threads that call activate_session/deactivate_session, and where a call
\* is: before `with self._lock`, at one of the three assignments, or at the
\* end of the with block.
Callers == {"c1", "c2"}
Idle == [pc |-> "idle", sid |-> None]

\* barcode_scanner.py:110-130, statement by statement.  A caller enters
\* activate_session with an id, or deactivate_session.
SlotCall(c) ==
    /\ caller[c].pc = "idle"
    /\ \/ \E sid \in SessionIds :
            caller' = [caller EXCEPT ![c] = [pc |-> "a_lock", sid |-> sid]]
       \/ caller' = [caller EXCEPT ![c] = [pc |-> "d_lock", sid |-> None]]
    /\ UNCHANGED <<scannerVars, slotVars, pollVars, configVars, main, pos_main,
                   observed, lock>>

\* A variant of SlotAcquire that enters the block without taking the lock.
SlotAcquireUnlocked(c) ==
    /\ caller[c].pc \in {"a_lock", "d_lock"}
    /\ lock' = c
    /\ caller' = [caller EXCEPT ![c].pc =
                     IF caller[c].pc = "a_lock" THEN "a_id" ELSE "d_active"]
    /\ UNCHANGED <<scannerVars, slotVars, pollVars, configVars, main, pos_main,
                   observed>>

\* barcode_scanner.py:116 and 124 `with self._lock:` blocks until the lock
\* is free and takes it.
SlotAcquire(c) ==
    /\ caller[c].pc \in {"a_lock", "d_lock"}
    /\ lock = None
    /\ lock' = c
    /\ caller' = [caller EXCEPT ![c].pc =
                     IF caller[c].pc = "a_lock" THEN "a_id" ELSE "d_active"]
    /\ UNCHANGED <<scannerVars, slotVars, pollVars, configVars, main, pos_main,
                   observed>>

\* barcode_scanner.py:117-119 and 126-128: one assignment.
SlotWrite(c) ==
    /\ caller[c].pc \in {"a_id", "a_cb", "a_active", "d_active", "d_id", "d_cb"}
    /\ LET pc == caller[c].pc IN
       /\ session_id' =
            IF pc = "a_id" THEN caller[c].sid
            ELSE IF pc = "d_id" THEN None ELSE session_id
       /\ on_barcode' =
            IF pc = "a_cb" THEN Closure(caller[c].sid)
            ELSE IF pc = "d_cb" THEN None ELSE on_barcode
       /\ session_active' =
            IF pc = "a_active" THEN TRUE
            ELSE IF pc = "d_active" THEN FALSE ELSE session_active
       /\ caller' = [caller EXCEPT ![c].pc =
                       CASE pc = "a_id" -> "a_cb"
                         [] pc = "a_cb" -> "a_active"
                         [] pc = "a_active" -> "unlock"
                         [] pc = "d_active" -> "d_id"
                         [] pc = "d_id" -> "d_cb"
                         [] pc = "d_cb" -> "unlock"]
    /\ UNCHANGED <<scannerVars, slot_written, callback_removed, last_call,
                   since_deactivate, pollVars, configVars, main, pos_main,
                   observed, lock>>

\* The end of the with block releases the lock; the call returns.
SlotRelease(c) ==
    /\ caller[c].pc = "unlock"
    /\ lock' = None
    /\ caller' = [caller EXCEPT ![c] = Idle]
    /\ UNCHANGED <<scannerVars, slotVars, pollVars, configVars, main, pos_main,
                   observed>>

\* A poll iteration that makes no call on the scanner.
NoSlotCall ==
    /\ last_call' = "none"
    /\ UNCHANGED <<sessionVars, slot_written, callback_removed, since_deactivate>>

\* A thread other than the worker uses the public session contract (in
\* main.py the poll worker and the lifespan's stop of the polling service).
ClientActivate ==
    /\ \E sid \in SessionIds : activate_session(sid, Closure(sid))
    /\ UNCHANGED <<scannerVars, pollVars, configVars, main, pos_main, sideVars>>

ClientDeactivate ==
    /\ deactivate_session
    /\ UNCHANGED <<scannerVars, pollVars, configVars, main, pos_main, sideVars>>

\* ------------------------------------------------------------- environment
DeviceAppears ==
    /\ ~dev_present
    /\ dev_present' = TRUE
    /\ UNCHANGED <<running, deviceVars, slotVars, powerVars, ctlVars, readVars,
                   main, pollVars, configVars,
                   pos_main, sideVars>>

DeviceVanishes ==
    /\ dev_present
    /\ dev_present' = FALSE
    /\ UNCHANGED <<running, deviceVars, slotVars, powerVars, ctlVars, readVars,
                   main, pollVars, configVars,
                   pos_main, sideVars>>

\* usb_discovery.py:129-184 discover_devices: the list of matching devices,
\* the registered scanner when it is visible.
discover_devices == IF dev_present THEN <<Discovered>> ELSE <<>>

\* usb_discovery.py:187-197 find_barcode_scanner: the first scanner of the
\* list; ScannerFound is its `is not None`.
ScannerFound == discover_devices # <<>>
find_barcode_scanner == discover_devices[1]

\* barcode_scanner.py:205-208 and 242-245: record what discovery returned.
RecordDevice(d) ==
    /\ device_path' = d.hidraw_path
    /\ device_name' = d.name
    /\ usb_device_id' = d.usb_device_id
    /\ connected' = TRUE

\* ---------------------------------------------------- start() and stop()
\* barcode_scanner.py:82-93 start.
ScannerStart ==
    /\ main = "init"
    /\ ~running
    /\ running' = TRUE
    /\ thread' = "init"
    /\ attempt' = 0
    /\ main' = "serving"
    /\ UNCHANGED <<deviceVars, slotVars, powerVars, exc, readVars, dev_present,
                   pollVars, configVars, pos_main, sideVars>>

\* barcode_scanner.py:97 stop: clear the running flag.  main.py:59-60 stops
\* the polling service first.
StopClearRunning ==
    /\ main = "serving"
    /\ pos_main \in {"init", "stopped"}
    /\ running' = FALSE
    /\ main' = "join"
    /\ UNCHANGED <<deviceVars, slotVars, powerVars, ctlVars, readVars,
                   dev_present, pollVars,
                   configVars, pos_main, sideVars>>

\* barcode_scanner.py:98-99 stop: join(timeout=5) returns when the worker has
\* ended, or after the timeout with the worker still alive.
StopJoin ==
    /\ main = "join"
    /\ main' = "power_on"
    /\ UNCHANGED <<running, deviceVars, slotVars, powerVars, ctlVars, readVars,
                   dev_present, pollVars,
                   configVars, pos_main, sideVars>>

\* barcode_scanner.py:101-103 stop: power on when the id is known; the result
\* of the call is ignored and the state is recorded as "on".
StopPowerOn ==
    /\ main = "power_on"
    /\ IF usb_device_id # None
       THEN /\ power_state' = "on"
            /\ last_power_op' = "on"
       ELSE UNCHANGED <<power_state, last_power_op>>
    /\ main' = "finish"
    /\ UNCHANGED <<running, deviceVars, slotVars, last_off_ok, cycle_on,
                   need_off, ctlVars, readVars, dev_present, pollVars,
                   configVars, pos_main, sideVars>>

\* barcode_scanner.py:104-106 stop: clear connected and session_active (not
\* under the lock; session id and callback are left as they are).
StopFinish ==
    /\ main = "finish"
    /\ connected' = FALSE
    /\ session_active' = FALSE
    /\ main' = "stopped"
    /\ UNCHANGED <<running, device_path, device_name, usb_device_id, session_id,
                   on_barcode, slot_written, callback_removed, last_call,
                   since_deactivate, powerVars,
                   ctlVars, readVars, dev_present, pollVars,
                   configVars, pos_main, sideVars>>

\* ------------------------------------------------------- POS polling service
\* pos_polling.py:231-248 _send_barcode: the JSON payload POSTed.  The lambda
\* of pos_polling.py:152-154 passes it the value its free variable
\* `session_id` has when the lambda runs.
send_barcode(sid, e) ==
    [session_id |-> sid, barcode |-> e.barcode, device_name |-> e.device]

\* What one GET of the session endpoint can produce (pos_polling.py:199-229):
\* an HTTP error, no connection, a body that is not JSON, the JSON value
\* null, JSON that is not an object, or an object with `active` and
\* `session_id` (None: the key is absent).
Responses ==
    [kind : {"http_401", "http_404", "http_other", "unreachable", "not_json",
             "json_null", "json_list"}, active : {FALSE}, session_id : {None}]
    \cup [kind : {"object"}, active : BOOLEAN, session_id : SessionIds \cup {None}]

\* The responses a behaviour draws from: all of them where the polling
\* service is followed alone, and, where both workers run side by side, the
\* objects, one failure that sets the error status and the one that does not.
FetchedResponses ==
    IF observed = "both"
    THEN {r \in Responses : r.kind \in {"object", "unreachable", "json_null"}}
    ELSE Responses

\* pos_polling.py:203-229 _fetch_session: the status detail set for a failure.
FetchErrorDetail(kind) ==
    CASE kind = "http_401" -> "Token ungueltig (401)"
      [] kind = "http_404" -> "Endpoint nicht gefunden (404)"
      [] kind = "http_other" -> "HTTP code"
      [] kind = "unreachable" -> "POS nicht erreichbar"
      [] OTHER -> "Antwort ist kein JSON"

\* settings_store.py:27 PosSettings.poll_interval default; pos_polling.py:127
\* and 183: the fixed sleeps of the not-configured branch and of the handler.
DEFAULT_POLL_INTERVAL == 2
NOT_CONFIGURED_SLEEP == 3
ERROR_SLEEP == 5

\* settings_store.py:68 _load: int(pos_raw.get("poll_interval", 2)) takes any
\* integer the file holds.
FileIntervals == {-1, 0, DEFAULT_POLL_INTERVAL}

\* Values a caller passes to update_pos.
RequestedIntervals == {0, 1}

\* max(1, poll_interval) of settings_store.py:121.
ClampInterval(v) == IF v < 1 THEN 1 ELSE v

\* The record of a finished iteration: how it went ("not_configured",
\* "failed": no usable response, "ok"), the kind of response fetched, the id
\* tracked when it began, the
\* `active` and `session_id` of the response, the call the scanner
\* received during it, whether its try block ended in the handler of
\* 176-183, and the argument of the time.sleep that ended it.  `pending`
\* holds the call of an iteration whose sleep is about to raise.
Iteration(outcome, response, remote_active, remote_id, slept) ==
    [outcome |-> outcome, response |-> response, tracked |-> current_session_id,
     remote_active |-> remote_active, remote_id |-> remote_id,
     call |-> last_call', pending |-> "none",
     raised |-> (slept = ERROR_SLEEP /\ outcome # "not_configured"
                 /\ (response = "json_list" \/ pos < 0)),
     slept |-> slept]
NoIteration ==
    [outcome |-> "none", response |-> "none", tracked |-> None,
     remote_active |-> FALSE,
     remote_id |-> None, call |-> "none", pending |-> "none", raised |-> FALSE,
     slept |-> DEFAULT_POLL_INTERVAL]

\* pos_polling.py:123-126, 135-138, 164-168, 179-182: deactivate the scanner
\* and forget the tracked id when one is tracked.
DropTrackedSession ==
    IF current_session_id # None
    THEN /\ deactivate_session
         /\ current_session_id' = None
    ELSE /\ NoSlotCall
         /\ UNCHANGED current_session_id

\* pos_polling.py:113-128 _poll_loop: the loop condition, the settings
\* snapshot and the not-configured branch (which sleeps and continues).
P_Head ==
    /\ pos_thread = "head"
    /\ IF ~pos_running
       THEN /\ pos_thread' = "done"
            /\ UNCHANGED <<status, status_detail, current_session_id, slotVars, pos>>
            /\ iteration' = NoIteration
       ELSE IF ~configured
       THEN /\ status' = "not_configured"
            /\ status_detail' = "POS URL oder Token nicht konfiguriert"
            /\ DropTrackedSession
            /\ pos' = poll_interval
            /\ iteration' =
                 Iteration("not_configured", "none", FALSE, None,
                           NOT_CONFIGURED_SLEEP)
            /\ pos_thread' = "head"
       ELSE /\ pos_thread' = "fetch"
            /\ pos' = poll_interval
            /\ iteration' = NoIteration
            /\ UNCHANGED <<status, status_detail, current_session_id, slotVars>>
    /\ UNCHANGED <<pos_running, active, poll_session_id, scannerVars, configVars,
                   main, pos_main, sideVars>>

\* pos_polling.py:131-143 _poll_loop: _fetch_session and what follows it up to
\* the branch on `active and session_id`.  A failure sets the error status
\* (not for the JSON value null, which json.loads returns as None), drops the
\* session, sleeps and continues; JSON that is not an object makes
\* session.get raise, and a negative interval makes time.sleep (139) raise
\* ValueError: the handler of 176-183 then sets the error status, finds
\* nothing left to drop and sleeps.
P_Fetch ==
    /\ pos_thread = "fetch"
    /\ \E resp \in FetchedResponses :
         IF resp.kind = "object"
         THEN /\ active' = resp.active
              /\ poll_session_id' = resp.session_id
              /\ pos_thread' = "decide"
              /\ UNCHANGED <<status, status_detail, current_session_id, slotVars,
                             iteration>>
         ELSE /\ IF resp.kind = "json_null" /\ pos >= 0
                 THEN UNCHANGED <<status, status_detail>>
                 ELSE /\ status' = "error"
                      /\ status_detail' =
                           IF resp.kind = "json_list" \/ pos < 0 THEN "exception"
                           ELSE FetchErrorDetail(resp.kind)
              /\ DropTrackedSession
              /\ iteration' =
                   Iteration("failed", resp.kind, FALSE, None,
                             IF resp.kind = "json_list" \/ pos < 0
                             THEN ERROR_SLEEP ELSE pos)
              /\ pos_thread' = "head"
              /\ UNCHANGED <<active, poll_session_id>>
    /\ UNCHANGED <<pos_running, pos, scannerVars, configVars, main, pos_main,
                   sideVars>>

\* pos_polling.py:174 time.sleep(pos.poll_interval) at the end of the try
\* block: the iteration is over, or, for a negative interval, ValueError is
\* on its way to the handler.
EndOfTry(it) ==
    IF pos < 0
    THEN /\ pos_thread' = "except"
         /\ iteration' = [NoIteration EXCEPT !.tracked = it.tracked,
                             !.remote_active = it.remote_active,
                             !.remote_id = it.remote_id, !.pending = it.call]
    ELSE /\ pos_thread' = "head"
         /\ iteration' = it

\* pos_polling.py:145-174 _poll_loop: activate a new or changed session, or
\* drop the tracked one; set the status; sleep.
P_Decide ==
    /\ pos_thread = "decide"
    /\ IF active /\ poll_session_id # None
       THEN /\ IF current_session_id # poll_session_id
               THEN /\ activate_session(poll_session_id, Closure(poll_session_id))
                    /\ current_session_id' = poll_session_id
               ELSE /\ NoSlotCall
                    /\ UNCHANGED current_session_id
            /\ status' = "session_active"
            /\ status_detail' = "Session"
       ELSE /\ DropTrackedSession
            /\ status' = "polling"
            /\ status_detail' = "Warte auf Scan-Anfrage"
    /\ EndOfTry(Iteration("ok", "object", active, poll_session_id, pos))
    /\ UNCHANGED <<pos_running, active, poll_session_id, pos, scannerVars,
                   configVars, main, pos_main, sideVars>>

\* pos_polling.py:176-183 _poll_loop: the handler, entered here from the
\* sleep of line 174: error status with the exception's text, the tracked
\* session dropped, a fixed sleep.
P_Except ==
    /\ pos_thread = "except"
    /\ status' = "error"
    /\ status_detail' = "exception"
    /\ DropTrackedSession
    /\ iteration' =
         [iteration EXCEPT !.outcome = "ok", !.response = "object",
            !.call = IF last_call' # "none" THEN last_call' ELSE iteration.pending,
            !.pending = "none", !.raised = TRUE, !.slept = ERROR_SLEEP]
    /\ pos_thread' = "head"
    /\ UNCHANGED <<pos_running, active, poll_session_id, pos, scannerVars,
                   configVars, main, pos_main, sideVars>>

\* What the GET of test_connection can produce: an HTTP error (401 or
\* another code), no connection, a body that is not JSON, or a JSON value:
\* an object, a list or a string (with or without "active" as key, element
\* or substring), null or a number.
TestResponses ==
    [kind : {"http_401", "http_other", "unreachable", "not_json"},
     type : {"none"}, has_active : {FALSE}]
    \cup [kind : {"json"}, type : {"object", "list", "string"},
          has_active : BOOLEAN]
    \cup [kind : {"json"}, type : {"null", "number"}, has_active : {FALSE}]

NoTest ==
    [response |-> [kind |-> "none", type |-> "none", has_active |-> FALSE],
     raised |-> FALSE, success |-> FALSE, message |-> ""]

\* pos_polling.py:271-312 test_connection.  `"active" in data` is a key test
\* on an object, a membership test on a list, a substring test on a string
\* and a TypeError on null, a number or a boolean; `data.keys()` exists on an
\* object only.  Neither TypeError nor AttributeError is among the
\* exceptions caught.
test_connection(r) ==
    CASE r.kind = "http_401" ->
           [response |-> r, raised |-> FALSE, success |-> FALSE,
            message |-> "Token ungueltig (401 Unauthorized)"]
      [] r.kind = "http_other" ->
           [response |-> r, raised |-> FALSE, success |-> FALSE,
            message |-> "HTTP code"]
      [] r.kind = "unreachable" ->
           [response |-> r, raised |-> FALSE, success |-> FALSE,
            message |-> "Nicht erreichbar"]
      [] r.kind = "not_json" ->
           [response |-> r, raised |-> FALSE, success |-> FALSE,
            message |-> "Antwort ist kein JSON"]
      [] r.type \in {"null", "number"} ->
           [response |-> r, raised |-> TRUE, success |-> FALSE,
            message |-> "TypeError"]
      [] r.has_active ->
           [response |-> r, raised |-> FALSE, success |-> TRUE,
            message |-> "Verbindung erfolgreich"]
      [] r.type = "object" ->
           [response |-> r, raised |-> FALSE, success |-> FALSE,
            message |-> "Unerwartetes Antwortformat"]
      [] OTHER ->
           [response |-> r, raised |-> TRUE, success |-> FALSE,
            message |-> "AttributeError"]

\* One call of the static test_connection, from any thread.
TestConnection ==
    /\ \E r \in TestResponses : test_result' = test_connection(r)
    /\ UNCHANGED <<skipped, decoded, discoveryVars, apartVars, flushVars, idle_off>>
    /\ UNCHANGED <<scannerVars, slotVars, pollVars, posSettings, usbVars, main,
                   pos_main, sideVars>>

\* pos_polling.py:61-72 start.
PosStart ==
    /\ pos_main = "init"
    /\ main = "serving"
    /\ ~pos_running
    /\ pos_running' = TRUE
    /\ pos_thread' = "head"
    /\ pos_main' = "serving"
    /\ UNCHANGED <<status, status_detail, current_session_id, active,
                   poll_session_id, pos, iteration, scannerVars, slotVars, configVars,
                   main, sideVars>>

\* pos_polling.py:76-77 stop: clear the running flag and deactivate the
\* scanner session.
PosStopDeactivate ==
    /\ pos_main = "serving"
    /\ pos_running' = FALSE
    /\ deactivate_session
    /\ pos_main' = "join"
    /\ UNCHANGED <<status, status_detail, current_session_id, pos_thread, active,
                   poll_session_id, pos, iteration, scannerVars, configVars, main,
                   sideVars>>

\* pos_polling.py:78-79 stop: join(timeout=5) returns when the poll worker
\* has ended, or after the timeout with the worker still alive.
PosStopJoin ==
    /\ pos_main = "join"
    /\ pos_main' = "finish"
    /\ UNCHANGED <<scannerVars, slotVars, pollVars, configVars, main, sideVars>>

\* pos_polling.py:80-84 stop: status stopped, tracked id cleared.
PosStopFinish ==
    /\ pos_main = "finish"
    /\ status' = "stopped"
    /\ status_detail' = ""
    /\ current_session_id' = None
    /\ pos_main' = "stopped"
    /\ UNCHANGED <<pos_running, pos_thread, active, poll_session_id, pos, iteration,
                   scannerVars, slotVars, configVars, main, sideVars>>

\* settings_store.py:98-127 update_pos: url or token set or cleared, or a
\* poll interval stored.
UpdatePos ==
    /\ \/ /\ configured' \in BOOLEAN \ {configured}
          /\ UNCHANGED poll_interval
       \/ /\ \E v \in RequestedIntervals : poll_interval' = ClampInterval(v)
          /\ poll_interval' # poll_interval
          /\ UNCHANGED configured
    /\ UNCHANGED <<usbVars, directVars>>
    /\ UNCHANGED <<scannerVars, slotVars, pollVars, main, pos_main, sideVars>>

\* ----------------------------------------------------------- scanner worker
\* barcode_scanner.py:194-226 _initial_discovery, one loop iteration: the
\* running check, one discovery, and the sleep when nothing was found.
W_InitialDiscovery ==
    /\ thread = "init"
    /\ \/ IF ~running
          THEN /\ thread' = "loop"
               /\ attempt' = 0
               /\ UNCHANGED deviceVars
          ELSE IF ScannerFound
          THEN /\ RecordDevice(find_barcode_scanner)
               /\ thread' = "init_off"
               /\ attempt' = 0
          ELSE /\ attempt' =
                    IF attempt + 1 < INITIAL_DISCOVERY_ATTEMPTS THEN attempt + 1 ELSE 0
               /\ thread' =
                    IF attempt + 1 < INITIAL_DISCOVERY_ATTEMPTS THEN "init" ELSE "loop"
               /\ UNCHANGED deviceVars
       \/ \* find_barcode_scanner raises (usb_discovery.py:55-60 catches only
          \* OSError around read_text): _main_loop calls _initial_discovery
          \* outside its try block (177), so the thread ends.
          /\ running
          /\ thread' = "done"
          /\ attempt' = 0
          /\ UNCHANGED deviceVars
    /\ UNCHANGED <<running, slotVars, powerVars, exc, readVars, main, dev_present, pollVars,
                   configVars, pos_main, sideVars>>

\* barcode_scanner.py:215-218 _initial_discovery: power off after learning the
\* device info, then connected = False.
W_InitialPowerOff ==
    /\ thread = "init_off"
    /\ \E ok \in PowerResults(usb_device_id) : PowerOff(ok)
    /\ connected' = FALSE
    /\ thread' = "loop"
    /\ UNCHANGED <<running, device_path, device_name, usb_device_id, sessionVars,
                   slot_written, callback_removed, last_call,
                   attempt, exc, readVars, main, dev_present, pollVars,
                   configVars, pos_main, sideVars>>

\* barcode_scanner.py:180-184 _main_loop: `while self._running`, then the
\* branch on _session_active.  A new cycle starts here.
W_LoopHead ==
    /\ thread = "loop"
    /\ thread' =
         IF ~running THEN "done"
         ELSE IF session_active THEN "power_on"
         ELSE "idle"
    /\ cycle_on' = FALSE
    /\ idle_off' = "none"
    /\ UNCHANGED <<running, deviceVars, slotVars, power_state, last_power_op,
                   last_off_ok, need_off, attempt, exc, readVars, main,
                   dev_present, pollVars,
                   posSettings, usbVars, calledVars, pos_main, sideVars>>

\* A variant of W_Idle that only sleeps.
W_IdleSleepOnly ==
    /\ thread = "idle"
    /\ NoPower
    /\ idle_off' = "skipped"
    /\ thread' = "loop"
    /\ UNCHANGED <<running, deviceVars, sessionVars, slot_written,
                   callback_removed, last_call, attempt, exc, readVars, main,
                   dev_present, pollVars,
                   posSettings, usbVars, calledVars, pos_main, sideVars>>

\* A variant of W_Idle that powers off whenever the id is known.
W_IdleAlwaysOff ==
    /\ thread = "idle"
    /\ IF usb_device_id # None
       THEN \E ok \in PowerResults(usb_device_id) :
              PowerOff(ok) /\ idle_off' = IF ok THEN "ok" ELSE "failed"
       ELSE NoPower /\ idle_off' = "skipped"
    /\ thread' = "loop"
    /\ UNCHANGED <<running, deviceVars, sessionVars, slot_written,
                   callback_removed, last_call, attempt, exc, readVars, main,
                   dev_present, pollVars,
                   posSettings, usbVars, calledVars, pos_main, sideVars>>

\* barcode_scanner.py:185-188 _main_loop, no session: power off unless the
\* recorded state is already "off" or the id is unknown; then sleep.
W_Idle ==
    /\ thread = "idle"
    /\ IF power_state # "off" /\ usb_device_id # None
       THEN \E ok \in PowerResults(usb_device_id) :
              PowerOff(ok) /\ idle_off' = IF ok THEN "ok" ELSE "failed"
       ELSE NoPower /\ idle_off' = "skipped"
    /\ thread' = "loop"
    /\ UNCHANGED <<running, deviceVars, sessionVars, slot_written,
                   callback_removed, last_call, attempt, exc, readVars, main,
                   dev_present, pollVars,
                   posSettings, usbVars, calledVars, pos_main, sideVars>>

\* A variant of W_PowerOn that skips the power-on when the recorded state is
\* already "on".
W_PowerOnIfNeeded ==
    /\ thread = "power_on"
    /\ IF power_state = "on" THEN NoPower
       ELSE \E ok \in PowerResults(usb_device_id) : PowerOn(ok)
    /\ thread' = "wait"
    /\ attempt' = 0
    /\ UNCHANGED <<running, deviceVars, sessionVars, slot_written,
                   callback_removed, last_call, exc, readVars, main,
                   dev_present, pollVars,
                   configVars, pos_main, sideVars>>

\* barcode_scanner.py:231-232 _handle_active_session: _power_on, settle sleep.
W_PowerOn ==
    /\ thread = "power_on"
    /\ \E ok \in PowerResults(usb_device_id) : PowerOn(ok)
    /\ thread' = "wait"
    /\ attempt' = 0
    /\ UNCHANGED <<running, deviceVars, sessionVars, slot_written,
                   callback_removed, last_call, exc, readVars, main,
                   dev_present, pollVars,
                   configVars, pos_main, sideVars>>

\* barcode_scanner.py:255-270 _wait_for_device, one loop iteration, and
\* barcode_scanner.py:242-245 when the device was found.
W_WaitForDevice ==
    /\ thread = "wait"
    /\ \/ /\ IF ~running \/ ~session_active
             THEN /\ thread' = "not_found"
                  /\ attempt' = 0
                  /\ UNCHANGED <<deviceVars, need_off>>
             ELSE IF ScannerFound
             THEN /\ RecordDevice(find_barcode_scanner)
                  /\ thread' = "open"
                  /\ need_off' = TRUE
                  /\ attempt' = 0
             ELSE /\ attempt' =
                       IF attempt + 1 < MAX_DISCOVERY_ATTEMPTS THEN attempt + 1 ELSE 0
                  /\ thread' =
                       IF attempt + 1 < MAX_DISCOVERY_ATTEMPTS THEN "wait"
                       ELSE "not_found"
                  /\ UNCHANGED <<deviceVars, need_off>>
          /\ UNCHANGED exc
       \/ \* find_barcode_scanner raises: the exception leaves
          \* _handle_active_session for the handler of _main_loop (189).
          /\ running /\ session_active
          /\ thread' = "except"
          /\ exc' = TRUE
          /\ attempt' = 0
          /\ UNCHANGED <<deviceVars, need_off>>
    /\ UNCHANGED <<running, slotVars, power_state, last_power_op, last_off_ok,
                   cycle_on, readVars, main, dev_present, pollVars,
                   configVars, pos_main, sideVars>>

\* A variant of W_NotFound that powers off before returning.
W_NotFoundPowerOff ==
    /\ thread = "not_found"
    /\ \E ok \in PowerResults(usb_device_id) : PowerOff(ok)
    /\ thread' = "loop"
    /\ UNCHANGED <<running, deviceVars, sessionVars, slot_written,
                   callback_removed, last_call, attempt, exc,
                   readVars, main, dev_present, pollVars,
                   configVars, pos_main, sideVars>>

\* barcode_scanner.py:236-240 _handle_active_session: nothing found, sleep and
\* return to the main loop.
W_NotFound ==
    /\ thread = "not_found"
    /\ thread' = "loop"
    /\ UNCHANGED <<running, deviceVars, slotVars, powerVars, attempt, exc,
                   readVars, main, dev_present, pollVars,
                   configVars, pos_main, sideVars>>

\* barcode_scanner.py:276-277 _read_barcodes: open(device_path).  It succeeds
\* only when the file exists; PermissionError and OSError are caught at
\* 333-339 and return; any other exception propagates.
W_Open ==
    /\ thread = "open"
    /\ \/ /\ dev_present
          /\ thread' = "flush"
          /\ exc' = FALSE
       \/ /\ thread' = "finally"
          /\ exc' \in BOOLEAN
    /\ UNCHANGED <<running, deviceVars, slotVars, powerVars, attempt, readVars,
                   main, dev_present, pollVars,
                   configVars, pos_main, sideVars>>

\* barcode_scanner.py:279-283 _read_barcodes: flush_buffer, then the empty
\* accumulator.
W_Flush ==
    /\ thread = "flush"
    /\ barcode_chars' = <<>>
    /\ typed' = <<>>
    /\ last_enter' = FALSE
    /\ short_read' = FALSE
    /\ callback_raised' = FALSE
    /\ delivered' = <<>>
    /\ thread' = "read_head"
    /\ UNCHANGED <<running, deviceVars, slotVars, powerVars, attempt, exc, entry,
                   callback, main, dev_present, pollVars,
                   configVars, pos_main, sideVars>>

\* _read_barcodes returns or raises: its locals are gone.
ReturnFromRead ==
    /\ barcode_chars' = <<>>
    /\ entry' = NoEntry
    /\ callback' = None
    /\ typed' = <<>>
    /\ last_enter' = FALSE
    /\ short_read' = FALSE
    /\ callback_raised' = FALSE
    /\ delivered' = <<>>
    /\ slot_written' = FALSE
    /\ callback_removed' = FALSE

\* A variant of W_ReadHead whose loop condition is the session flag alone.
W_ReadHeadSessionOnly ==
    /\ thread = "read_head"
    /\ IF ~session_active \/ ~dev_present
       THEN /\ thread' = "finally"
            /\ ReturnFromRead
       ELSE /\ thread' = "read"
            /\ short_read' = FALSE
            /\ UNCHANGED <<barcode_chars, entry, callback, typed, last_enter,
                           callback_raised, delivered, slot_written,
                           callback_removed>>
    /\ UNCHANGED <<running, deviceVars, sessionVars, last_call,
                   since_deactivate, powerVars, attempt, exc, main, dev_present, pollVars,
                   configVars, pos_main, sideVars>>

\* barcode_scanner.py:285-289 _read_barcodes: the loop condition and the
\* existence check of the device file.
W_ReadHead ==
    /\ thread = "read_head"
    /\ IF ~(running /\ session_active) \/ ~dev_present
       THEN /\ thread' = "finally"
            /\ ReturnFromRead
       ELSE /\ thread' = "read"
            /\ short_read' = FALSE
            /\ UNCHANGED <<barcode_chars, entry, callback, typed, last_enter,
                           callback_raised, delivered, slot_written,
                           callback_removed>>
    /\ UNCHANGED <<running, deviceVars, sessionVars, last_call,
                   since_deactivate, powerVars, attempt, exc, main, dev_present, pollVars,
                   configVars, pos_main, sideVars>>

\* What the device sends for a key: the character typed (None for a key that
\* types nothing) and the 8-byte report's modifier and first keycode, as the
\* USB HID usage tables encode them: a key release, Enter, Caps Lock (not in
\* the tables), A with right shift held, and the space bar.
Keystrokes ==
    { [char |-> None, report |-> [modifier |-> 0, scancode |-> 0]],
      [char |-> None, report |-> [modifier |-> 0, scancode |-> SCANCODE_ENTER]],
      [char |-> None, report |-> [modifier |-> 0, scancode |-> 58]],
      [char |-> "A", report |-> [modifier |-> 32, scancode |-> 4]],
      [char |-> " ", report |-> [modifier |-> 0, scancode |-> 44]] }

\* The reports of a device typing h, e, l, o and blanks, with key releases
\* and Caps Lock in between.
DecodeKeystrokes ==
    { [char |-> None, report |-> [modifier |-> 0, scancode |-> 0]],
      [char |-> None, report |-> [modifier |-> 0, scancode |-> SCANCODE_ENTER]],
      [char |-> None, report |-> [modifier |-> 0, scancode |-> 58]],
      [char |-> "h", report |-> [modifier |-> 0, scancode |-> 11]],
      [char |-> "e", report |-> [modifier |-> 0, scancode |-> 8]],
      [char |-> "l", report |-> [modifier |-> 0, scancode |-> 15]],
      [char |-> "o", report |-> [modifier |-> 0, scancode |-> 18]],
      [char |-> " ", report |-> [modifier |-> 0, scancode |-> 44]] }

\* A variant of ProcessReport in which a key release ends the run.
ProcessReportReleaseEnds(report) ==
    IF report.scancode = 0
    THEN /\ thread' = "read_head"
         /\ barcode_chars' = <<>>
         /\ UNCHANGED entry
    ELSE IF report.scancode = SCANCODE_ENTER
    THEN /\ barcode_chars' = <<>>
         /\ IF Strip(barcode_chars) # <<>>
            THEN /\ entry' = [barcode |-> Strip(barcode_chars),
                              device |-> device_name]
                 /\ thread' = "fetch"
            ELSE /\ thread' = "read_head"
                 /\ UNCHANGED entry
    ELSE /\ barcode_chars' =
              IF DecodeChar(report) # None
              THEN Append(barcode_chars, DecodeChar(report))
              ELSE barcode_chars
         /\ thread' = "read_head"
         /\ UNCHANGED entry

\* A variant of ProcessReport that does not trim the accumulated run.
ProcessReportUntrimmed(report) ==
    IF report.scancode = 0
    THEN /\ thread' = "read_head"
         /\ UNCHANGED <<barcode_chars, entry>>
    ELSE IF report.scancode = SCANCODE_ENTER
    THEN /\ barcode_chars' = <<>>
         /\ IF barcode_chars # <<>>
            THEN /\ entry' = [barcode |-> barcode_chars, device |-> device_name]
                 /\ thread' = "fetch"
            ELSE /\ thread' = "read_head"
                 /\ UNCHANGED entry
    ELSE /\ barcode_chars' =
              IF DecodeChar(report) # None
              THEN Append(barcode_chars, DecodeChar(report))
              ELSE barcode_chars
         /\ thread' = "read_head"
         /\ UNCHANGED entry

\* barcode_scanner.py:300-331 _read_barcodes: what one report does to the
\* accumulator, the entry and the worker's position.
ProcessReport(report) ==
    IF report.scancode = 0
    THEN /\ thread' = "read_head"
         /\ UNCHANGED <<barcode_chars, entry>>
    ELSE IF report.scancode = SCANCODE_ENTER
    THEN /\ barcode_chars' = <<>>
         /\ IF Strip(barcode_chars) # <<>>
            THEN /\ entry' = [barcode |-> Strip(barcode_chars),
                              device |-> device_name]
                 /\ thread' = "fetch"
            ELSE /\ thread' = "read_head"
                 /\ UNCHANGED entry
    ELSE /\ barcode_chars' =
              IF DecodeChar(report) # None
              THEN Append(barcode_chars, DecodeChar(report))
              ELSE barcode_chars
         /\ thread' = "read_head"
         /\ UNCHANGED entry

\* barcode_scanner.py:292-298 _read_barcodes: read_report_with_timeout
\* (hid_reader.py:149-172) returns None when select times out and when the
\* read gives no or fewer than 8 bytes, returns a report, or raises; after
\* None the loop continues if the device file exists and returns if not;
\* OSError is caught at 338 and returns, anything else propagates.
W_Read ==
    /\ thread = "read"
    /\ \/ /\ dev_present
          /\ thread' = "read_head"
          /\ short_read' \in BOOLEAN
          /\ UNCHANGED <<exc, barcode_chars, entry, callback, typed, last_enter,
                         callback_raised, delivered, slot_written,
                         callback_removed>>
       \/ /\ ~dev_present
          /\ thread' = "finally"
          /\ ReturnFromRead
          /\ UNCHANGED exc
       \/ /\ thread' = "finally"
          /\ exc' \in BOOLEAN
          /\ ReturnFromRead
       \/ /\ dev_present
          /\ \E k \in Keystrokes :
               LET base == IF last_enter THEN <<>> ELSE typed IN
               /\ k.char # None => Len(base) < MaxChars
               /\ ProcessReport(k.report)
               /\ typed' = IF k.char # None THEN Append(base, k.char) ELSE base
               /\ last_enter' = (k.report.scancode = SCANCODE_ENTER)
          /\ short_read' = FALSE
          /\ delivered' = <<>>
          /\ slot_written' = FALSE
          /\ UNCHANGED <<exc, callback, callback_removed, callback_raised>>
    /\ UNCHANGED <<running, deviceVars, sessionVars, last_call,
                   since_deactivate, powerVars, attempt, main, dev_present, pollVars,
                   configVars, pos_main, sideVars>>

\* The device sends a report; the opened file queues it.
F_Arrive ==
    /\ thread \in {"flush", "read_head", "read"}
    /\ Len(queue) < MaxQueued
    /\ thread = "flush" => flush_call.late < MaxQueued
    /\ \E k \in Keystrokes :
         /\ k.char # None =>
              Len(typed) + Cardinality({i \in 1..Len(queue) :
                                          queue[i].key.char # None}) < MaxChars
         /\ queue' = Append(queue, [key |-> k, stale |-> FALSE])
    /\ UNCHANGED <<scannerVars, slotVars, pollVars, posSettings, usbVars,
                   test_result, skipped, decoded, discoveryVars, apartVars, flush_call,
                   idle_off, main, pos_main, sideVars>>

\* A variant of F_Flush that returns 0 without looking at the device.
F_FlushNothing ==
    /\ thread = "flush"
    /\ flush_call' = [flush_call EXCEPT !.returned = TRUE]
    /\ barcode_chars' = <<>>
    /\ typed' = <<>>
    /\ last_enter' = FALSE
    /\ thread' = "read_head"
    /\ UNCHANGED <<running, deviceVars, slotVars, powerVars, attempt, exc, entry,
                   callback, short_read, callback_raised, delivered, main,
                   dev_present, pollVars, posSettings, usbVars, test_result,
                   skipped, decoded, discoveryVars, apartVars, queue, idle_off, pos_main,
                   sideVars>>

\* hid_reader.py:136-146 flush_buffer, one round of its loop: select with
\* timeout 0, then one read; with nothing readable, or nothing read, it
\* returns the count, and barcode_scanner.py:279-283 goes on to the empty
\* accumulator and the read loop.
F_Flush ==
    /\ thread = "flush"
    /\ IF queue = <<>> \/ ~dev_present
       THEN /\ flush_call' = [flush_call EXCEPT !.returned = TRUE]
            /\ barcode_chars' = <<>>
            /\ typed' = <<>>
            /\ last_enter' = FALSE
            /\ thread' = "read_head"
            /\ UNCHANGED queue
       ELSE /\ queue' = Tail(queue)
            /\ flush_call' =
                 [flush_call EXCEPT !.count = @ + 1,
                    !.late = IF Head(queue).stale THEN @ ELSE @ + 1]
            /\ UNCHANGED <<thread, barcode_chars, typed, last_enter>>
    /\ UNCHANGED <<running, deviceVars, slotVars, powerVars, attempt, exc, entry,
                   callback, short_read, callback_raised, delivered, main,
                   dev_present, pollVars, posSettings, usbVars, test_result,
                   skipped, decoded, discoveryVars, apartVars, idle_off, pos_main,
                   sideVars>>

\* barcode_scanner.py:292-331 _read_barcodes: read_report_with_timeout on the
\* opened file: None after the timeout with nothing queued, else the oldest
\* report, which is handled.
F_Read ==
    /\ thread = "read"
    /\ IF queue = <<>>
       THEN /\ thread' = "read_head"
            /\ UNCHANGED <<barcode_chars, entry, typed, last_enter, delivered,
                           slot_written, queue, flush_call>>
       ELSE LET k == Head(queue).key
                base == IF last_enter THEN <<>> ELSE typed
            IN /\ ProcessReport(k.report)
               /\ typed' = IF k.char # None /\ ~Head(queue).stale
                            THEN Append(base, k.char) ELSE base
               /\ last_enter' = (k.report.scancode = SCANCODE_ENTER)
               /\ queue' = Tail(queue)
               /\ flush_call' = [flush_call EXCEPT
                                   !.stale_read = @ \/ Head(queue).stale]
               /\ delivered' = <<>>
               /\ slot_written' = FALSE
    /\ short_read' = FALSE
    /\ UNCHANGED <<exc, callback, callback_removed, callback_raised>>
    /\ UNCHANGED <<running, deviceVars, sessionVars, last_call,
                   since_deactivate, powerVars, attempt, main, dev_present, pollVars,
                   posSettings, usbVars, test_result, skipped, decoded,
                   discoveryVars, apartVars, idle_off, pos_main, sideVars>>

\* barcode_scanner.py:292-331 _read_barcodes: one report read and handled,
\* of a device that types runs of up to MaxRun characters.
D_Read ==
    /\ thread = "read"
    /\ \E k \in DecodeKeystrokes :
         LET base == IF last_enter THEN <<>> ELSE typed IN
         /\ k.char # None => Len(base) < MaxRun
         /\ ProcessReport(k.report)
         /\ typed' = IF k.char # None THEN Append(base, k.char) ELSE base
         /\ last_enter' = (k.report.scancode = SCANCODE_ENTER)
         /\ skipped' = \/ ~last_enter /\ skipped
                       \/ k.report.scancode \in {0, 58}
    /\ short_read' = FALSE
    /\ delivered' = <<>>
    /\ slot_written' = FALSE
    /\ UNCHANGED <<exc, callback, callback_removed, callback_raised>>
    /\ UNCHANGED <<running, deviceVars, sessionVars, last_call,
                   since_deactivate, powerVars, attempt, main, dev_present, pollVars,
                   posSettings, usbVars, test_result, decoded, discoveryVars, apartVars,
                   flushVars, idle_off, pos_main, sideVars>>

\* hid_reader.py:56-79 _decode_report applied to the report at hand.
Decode ==
    /\ ~decoded.called
    /\ decoded' = [decoded EXCEPT !.called = TRUE,
                      !.char = decode_report([modifier |-> decoded.modifier,
                                              scancode |-> decoded.scancode])]
    /\ UNCHANGED <<scannerVars, slotVars, pollVars, posSettings, usbVars,
                   test_result, skipped, discoveryVars, apartVars, flushVars, idle_off,
                   main, pos_main, sideVars>>

\* barcode_scanner.py:318-320 _read_barcodes: read _on_barcode under _lock.
W_FetchCallback ==
    /\ thread = "fetch"
    /\ callback' = on_barcode
    /\ callback_removed' = FALSE
    /\ thread' = IF on_barcode # None THEN "invoke" ELSE "read_head"
    /\ entry' = IF on_barcode # None THEN entry ELSE NoEntry
    /\ UNCHANGED <<running, deviceVars, sessionVars, last_call,
                   since_deactivate, slot_written, powerVars, attempt, exc, barcode_chars, typed,
                   last_enter, short_read, callback_raised, delivered, main,
                   dev_present, pollVars,
                   configVars, pos_main, sideVars>>

\* pos_polling.py:250-267 _send_barcode: what the POST can do.  HTTPError,
\* URLError, OSError and TimeoutError are logged there; anything else it
\* raises reaches barcode_scanner.py:323.
SendResults == {"sent", "http_error", "unreachable", "timeout", "raised"}

\* A variant of W_InvokeCallback in which a failed POST is not swallowed:
\* the exception leaves the read loop.
W_InvokeCallbackPropagates ==
    /\ thread = "invoke"
    /\ \E result \in SendResults :
         /\ delivered' =
              Append(delivered, [callback |-> callback, entry |-> entry,
                                 removed |-> callback_removed,
                                 post |-> send_barcode(poll_session_id, entry),
                                 sent |-> (result = "sent"),
                                 raised |-> (result = "raised")])
         /\ thread' = IF result = "sent" THEN "read_head" ELSE "finally"
         /\ exc' = (result # "sent")
         /\ callback_raised' = (callback_raised \/ result = "raised")
    /\ entry' = NoEntry
    /\ callback' = None
    /\ callback_removed' = FALSE
    /\ UNCHANGED <<running, deviceVars, sessionVars, last_call,
                   since_deactivate, slot_written, powerVars, attempt, barcode_chars, typed,
                   last_enter, short_read, main, dev_present, pollVars,
                   configVars, pos_main, sideVars>>

\* A variant of W_InvokeCallback in which a callback that raised ends the
\* read loop quietly: _read_barcodes returns.
W_InvokeCallbackReturns ==
    /\ thread = "invoke"
    /\ \E result \in SendResults :
         /\ delivered' =
              Append(delivered, [callback |-> callback, entry |-> entry,
                                 removed |-> callback_removed,
                                 post |-> send_barcode(poll_session_id, entry),
                                 sent |-> (result = "sent"),
                                 raised |-> (result = "raised")])
         /\ callback_raised' = (result = "raised")
         /\ thread' = IF result = "raised" THEN "finally" ELSE "read_head"
    /\ entry' = NoEntry
    /\ callback' = None
    /\ callback_removed' = FALSE
    /\ UNCHANGED <<running, deviceVars, sessionVars, last_call,
                   since_deactivate, slot_written, powerVars, attempt, exc, barcode_chars, typed,
                   last_enter, short_read, main, dev_present, pollVars,
                   configVars, pos_main, sideVars>>

\* barcode_scanner.py:321-325 _read_barcodes: callback(entry); an exception it
\* raises is logged and the loop continues.
W_InvokeCallback ==
    /\ thread = "invoke"
    /\ \E result \in SendResults :
         /\ delivered' =
              Append(delivered, [callback |-> callback, entry |-> entry,
                                 removed |-> callback_removed,
                                 post |-> send_barcode(poll_session_id, entry),
                                 sent |-> (result = "sent"),
                                 raised |-> (result = "raised")])
         /\ callback_raised' = (result = "raised")
    /\ entry' = NoEntry
    /\ callback' = None
    /\ callback_removed' = FALSE
    /\ thread' = "read_head"
    /\ UNCHANGED <<running, deviceVars, sessionVars, last_call,
                   since_deactivate, slot_written, powerVars, attempt, exc, barcode_chars, typed,
                   last_enter, short_read, main, dev_present, pollVars,
                   configVars, pos_main, sideVars>>

\* A variant of W_Finally in which the power-off is on the normal path only
\* (no try/finally): an exception leaves the cycle without it.
W_FinallyOnReturnOnly ==
    /\ thread = "finally"
    /\ connected' = FALSE
    /\ IF exc THEN NoPower
       ELSE \E ok \in PowerResults(usb_device_id) : PowerOff(ok)
    /\ thread' = IF exc THEN "except" ELSE "loop"
    /\ UNCHANGED <<running, device_path, device_name, usb_device_id, sessionVars,
                   slot_written, callback_removed, last_call,
                   attempt, exc, readVars, main, dev_present, pollVars,
                   configVars, pos_main, sideVars>>

\* barcode_scanner.py:250-253 _handle_active_session: the finally block.  An
\* exception that left _read_barcodes goes on to the handler of _main_loop.
W_Finally ==
    /\ thread = "finally"
    /\ connected' = FALSE
    /\ \E ok \in PowerResults(usb_device_id) : PowerOff(ok)
    /\ thread' = IF exc THEN "except" ELSE "loop"
    /\ UNCHANGED <<running, device_path, device_name, usb_device_id, sessionVars,
                   slot_written, callback_removed, last_call,
                   attempt, exc, readVars, main, dev_present, pollVars,
                   configVars, pos_main, sideVars>>

\* barcode_scanner.py:189-192 _main_loop: log, connected = False, back off.
W_Except ==
    /\ thread = "except"
    /\ connected' = FALSE
    /\ exc' = FALSE
    /\ thread' = "loop"
    /\ UNCHANGED <<running, device_path, device_name, usb_device_id, slotVars,
                   powerVars, attempt, readVars, main, dev_present, pollVars,
                   configVars, pos_main, sideVars>>

Worker ==
    \/ W_InitialDiscovery \/ W_InitialPowerOff \/ W_LoopHead \/ W_Idle
    \/ W_PowerOn \/ W_WaitForDevice \/ W_NotFound \/ W_Open \/ W_Flush
    \/ W_ReadHead \/ W_Read \/ W_FetchCallback \/ W_InvokeCallback
    \/ W_Finally \/ W_Except

\* wifi_manager.py:89-96 WifiManager.__init__ and the host at boot: run()
\* about to enter its loop, no connect thread, the gateway container up.
WifiConstructed ==
    /\ ap_active = FALSE /\ server = FALSE /\ connecting = FALSE
    /\ consecutive_failures = 0 /\ failed_checks = 0
    /\ wifi_main = "head" /\ wifi_thread = "none" /\ gateway = TRUE

\* barcode_scanner.py:62-63 / pos_polling.py:54-55: the service as
\* constructed, no start() or stop() called yet; the hub's ports powered as
\* after boot; the WiFi manager as constructed, the WiFi connected.
NeverStarted ==
    /\ life_running = FALSE /\ life_threads = <<>>
    /\ life_main = "idle" /\ life_last = "none"
    /\ hub = <<TRUE, TRUE>> /\ on_effect = FALSE
    /\ WifiConstructed /\ wifi_connected = TRUE

\* ------------------------------------------------------------ specification
\* The state after main.py:35-47 constructed the store, the controller, the
\* scanner and the polling service, before either start(); the settings, and
\* with them the controller's method (main.py:38), are set by each
\* specification.
ConstructedState ==
    /\ running = FALSE
    /\ connected = FALSE
    /\ device_path = None
    /\ device_name = DefaultDeviceName
    /\ usb_device_id = None
    /\ power_state = "unknown"
    /\ session_active = FALSE
    /\ session_id = None
    /\ on_barcode = None
    /\ thread = "none"
    /\ attempt = 0
    /\ exc = FALSE
    /\ barcode_chars = <<>>
    /\ entry = NoEntry
    /\ callback = None
    /\ pos_running = FALSE
    /\ status = "stopped"
    /\ status_detail = ""
    /\ current_session_id = None
    /\ pos_thread = "none"
    /\ active = FALSE
    /\ poll_session_id = None
    /\ pos = DEFAULT_POLL_INTERVAL
    /\ uhubctl_available = None
    /\ on_path = FALSE
    /\ bound = TRUE
    /\ power_call = NoPowerCall
    /\ test_result = NoTest
    /\ skipped = FALSE
    /\ idle_off = "none"
    /\ NeverStarted
    /\ queue = <<>>
    /\ flush_call = NoFlush
    /\ iteration = NoIteration
    /\ main = "init"
    /\ pos_main = "init"
    /\ cycle_on = FALSE
    /\ need_off = FALSE
    /\ last_power_op = "none"
    /\ last_off_ok = TRUE
    /\ slot_written = FALSE
    /\ callback_removed = FALSE
    /\ typed = <<>>
    /\ last_enter = FALSE
    /\ short_read = FALSE
    /\ callback_raised = FALSE
    /\ delivered = <<>>
    /\ last_call = "none"
    /\ since_deactivate = "none"
    /\ lock = None
    /\ caller = [c \in Callers |-> Idle]

\* The two workers share nothing but the session slot, which only the
\* callers of activate_session/deactivate_session write.  A behaviour follows
\* either the scanner, with a caller that may use the session contract at
\* any time (which covers every call the polling service makes), or the
\* polling service, whose calls on the slot never depend on the worker, or
\* both side by side.
ScannerSide ==
    \/ ScannerStart \/ StopClearRunning \/ StopJoin \/ StopPowerOn \/ StopFinish
    \/ ClientActivate \/ ClientDeactivate
    \/ DeviceAppears \/ DeviceVanishes
    \/ Worker

PollingSide ==
    \/ ScannerStart
    \/ PosStart \/ PosStopDeactivate \/ PosStopJoin \/ PosStopFinish
    \/ P_Head \/ P_Fetch \/ P_Decide \/ P_Except
    \/ UpdatePos

Constructed ==
    ConstructedState /\ decoded = NoDecode /\ sysfs = NoTree /\ found = NoDiscovery

\* ---- Spec: the scanner with its callers and its device.
\* settings_store.py:52 and 56-58: no settings file, the defaults stay.
DefaultSettings ==
    /\ configured = FALSE /\ poll_interval = DEFAULT_POLL_INTERVAL
    /\ stored_method = "bind_unbind"
    /\ method = stored_method

\* settings_store.py:60-74 _load: the settings of the file.
LoadedSettings ==
    /\ configured \in BOOLEAN /\ poll_interval \in FileIntervals
    /\ stored_method = "bind_unbind"
    /\ method = stored_method

Init ==
    Constructed /\ DefaultSettings /\ dev_present \in BOOLEAN /\ observed = "scanner"

Next ==
    \/ ScannerStart \/ StopClearRunning \/ StopJoin \/ StopPowerOn \/ StopFinish
    \/ ClientActivate \/ ClientDeactivate
    \/ DeviceAppears \/ DeviceVanishes
    \/ W_InitialDiscovery \/ W_InitialPowerOff \/ W_LoopHead \/ W_Idle
    \/ W_PowerOn \/ W_WaitForDevice \/ W_NotFound \/ W_Open \/ W_Flush
    \/ W_ReadHead \/ W_Read \/ W_FetchCallback \/ W_InvokeCallback
    \/ W_Finally \/ W_Except

Spec == Init /\ [][Next]_vars

\* ---- LiveSpec: Spec with a worker whose every blocking call returns.
LiveSpec == Init /\ [][Next]_vars /\ WF_vars(Worker)

\* ---- PollSpec: the polling service and the session slot.
PollInit ==
    Constructed /\ LoadedSettings /\ dev_present = TRUE /\ observed = "polling"

PollNext ==
    \/ ScannerStart
    \/ PosStart \/ PosStopDeactivate \/ PosStopJoin \/ PosStopFinish
    \/ P_Head \/ P_Fetch \/ P_Decide \/ P_Except
    \/ UpdatePos

PollSpec == PollInit /\ [][PollNext]_vars

\* ---- SystemSpec: both workers side by side, as main.py starts them, with
\* the scanner plugged in, neither service stopped and the settings left
\* alone: the POS configured or not, the default interval.
SystemInit ==
    /\ Constructed /\ dev_present = TRUE /\ observed = "both"
    /\ configured \in BOOLEAN /\ poll_interval = DEFAULT_POLL_INTERVAL
    /\ stored_method = "bind_unbind"
    /\ method = stored_method

SystemNext ==
    \/ ScannerStart \/ PosStart
    \/ P_Head \/ P_Fetch \/ P_Decide
    \/ W_InitialDiscovery \/ W_InitialPowerOff \/ W_LoopHead \/ W_Idle
    \/ W_PowerOn \/ W_WaitForDevice \/ W_NotFound \/ W_Open \/ W_Flush
    \/ W_ReadHead \/ W_Read \/ W_FetchCallback \/ W_InvokeCallback
    \/ W_Finally \/ W_Except

SystemSpec == SystemInit /\ [][SystemNext]_vars

\* ---- ExitSpec: either side, each worker's blocking calls returning.
ExitInit ==
    /\ Constructed /\ dev_present \in BOOLEAN
    /\ \/ observed = "scanner" /\ DefaultSettings
       \/ observed = "polling" /\ LoadedSettings

ExitNext ==
    \/ observed = "scanner" /\ ScannerSide
    \/ observed = "polling" /\ PollingSide

PollWorker == P_Head \/ P_Fetch \/ P_Decide \/ P_Except

ExitSpec ==
    ExitInit /\ [][ExitNext]_vars
    /\ WF_vars(observed = "scanner" /\ Worker)
    /\ WF_vars(observed = "polling" /\ PollWorker)

\* ---- TestSpec: the polling service started with the default interval and
\* never stopped, and test_connection called at any time.
TestInit ==
    /\ Constructed /\ dev_present = TRUE /\ observed = "test"
    /\ configured \in BOOLEAN /\ poll_interval = DEFAULT_POLL_INTERVAL
    /\ stored_method = "bind_unbind"
    /\ method = stored_method

TestNext ==
    \/ ScannerStart \/ PosStart
    \/ P_Head \/ P_Fetch \/ P_Decide
    \/ TestConnection

TestSpec == TestInit /\ [][TestNext]_vars

\* ---- DecodeSpec: the read loop of an active session fed with reports: the
\* worker has opened the device for session S1 and nothing but the device
\* acts.
OpenedForSession ==
    /\ running = TRUE /\ connected = TRUE
    /\ device_path = Discovered.hidraw_path /\ device_name = Discovered.name
    /\ usb_device_id = Discovered.usb_device_id /\ power_state = "on"
    /\ session_active = TRUE /\ session_id = "S1" /\ on_barcode = Closure("S1")
    /\ attempt = 0 /\ exc = FALSE
    /\ barcode_chars = <<>> /\ entry = NoEntry /\ callback = None
    /\ pos_running = FALSE /\ status = "stopped" /\ status_detail = ""
    /\ current_session_id = None /\ pos_thread = "none" /\ active = FALSE
    /\ poll_session_id = None /\ pos = DEFAULT_POLL_INTERVAL
    /\ uhubctl_available = None /\ on_path = FALSE /\ bound = TRUE
    /\ power_call = NoPowerCall /\ test_result = NoTest
    /\ skipped = FALSE /\ decoded = NoDecode /\ iteration = NoIteration
    /\ sysfs = NoTree /\ found = NoDiscovery /\ idle_off = "none"
    /\ NeverStarted
    /\ main = "serving" /\ pos_main = "init"
    /\ cycle_on = TRUE /\ need_off = TRUE /\ last_power_op = "on"
    /\ last_off_ok = TRUE /\ slot_written = FALSE /\ callback_removed = FALSE
    /\ typed = <<>> /\ last_enter = FALSE /\ short_read = FALSE
    /\ callback_raised = FALSE /\ delivered = <<>>
    /\ last_call = "activate" /\ since_deactivate = "none"
    /\ lock = None /\ caller = [c \in Callers |-> Idle]
    /\ DefaultSettings /\ dev_present = TRUE

DecodeInit ==
    /\ OpenedForSession /\ thread = "read_head" /\ observed = "decode"
    /\ queue = <<>> /\ flush_call = NoFlush

DecodeNext == W_ReadHead \/ D_Read \/ W_FetchCallback \/ W_InvokeCallback

DecodeSpec == DecodeInit /\ [][DecodeNext]_vars

\* ---- FlushSpec: the worker has opened the device for session S1 with
\* reports queued on it; flush_buffer, then the read loop, while the device
\* goes on sending.
StaleQueues ==
    {<<>>}
    \cup {<<[key |-> k, stale |-> TRUE]>> : k \in Keystrokes}
    \cup {<<[key |-> k1, stale |-> TRUE], [key |-> k2, stale |-> TRUE]>> :
             k1 \in Keystrokes, k2 \in Keystrokes}

FlushInit ==
    /\ OpenedForSession /\ thread = "flush" /\ observed = "flush"
    /\ queue \in {q \in StaleQueues : Len(q) <= MaxQueued}
    /\ flush_call = [NoFlush EXCEPT !.stale = Len(queue)]

FlushNext ==
    F_Arrive \/ F_Flush \/ W_ReadHead \/ F_Read \/ W_FetchCallback
    \/ W_InvokeCallback

FlushSpec == FlushInit /\ [][FlushNext]_vars

\* ---- ReportSpec: _decode_report applied to one report with any modifier
\* byte, nothing else running.
ReportInit ==
    /\ ConstructedState /\ DefaultSettings
    /\ dev_present = TRUE /\ observed = "report"
    /\ sysfs = NoTree /\ found = NoDiscovery
    /\ decoded \in [modifier : 0..255,
                    scancode : {0, 4, 11, 30, SCANCODE_ENTER, 44, 58},
                    char : {None}, called : {FALSE}]

ReportNext == Decode

ReportSpec == ReportInit /\ [][ReportNext]_vars

\* ---- SysfsSpec: find_barcode_scanner called on one sysfs tree, nothing
\* else running.
SysfsInit ==
    /\ ConstructedState /\ DefaultSettings
    /\ dev_present = TRUE /\ observed = "sysfs"
    /\ decoded = NoDecode /\ found = NoDiscovery
    /\ sysfs \in Trees

SysfsNext == Discover

SysfsSpec == SysfsInit /\ [][SysfsNext]_vars

\* ---- TopologySpec: find_barcode_scanner called on a tree with one entry
\* of the registered scanner, nothing else running.
TopologyInit ==
    /\ ConstructedState /\ DefaultSettings
    /\ dev_present = TRUE /\ observed = "topology"
    /\ decoded = NoDecode /\ found = NoDiscovery
    /\ sysfs \in {[root |-> "listable", entries |-> ("hidraw0" :> e)] :
                    e \in TopologyEntries}

TopologyNext == Discover

TopologySpec == TopologyInit /\ [][TopologyNext]_vars

\* ---- PowerSpec: the power controller called with any arguments, the
\* stored method changed at any time.  usb_raw.get("method", "bind_unbind")
\* of settings_store.py:71 takes any string the file holds.
PowerInit ==
    /\ Constructed /\ dev_present = TRUE /\ observed = "power"
    /\ configured = FALSE /\ poll_interval = DEFAULT_POLL_INTERVAL
    /\ stored_method \in Methods \cup {"bogus"}
    /\ method = stored_method

PowerNext == PowerCall \/ UpdateUsbPower \/ PathChanges

PowerSpec == PowerInit /\ [][PowerNext]_vars

\* ---- SlotSpec: threads calling activate_session and deactivate_session
\* concurrently, one statement at a time.
SlotInit ==
    Constructed /\ DefaultSettings /\ dev_present = TRUE /\ observed = "slot"

SlotNext ==
    \E c \in Callers : SlotCall(c) \/ SlotAcquire(c) \/ SlotWrite(c) \/ SlotRelease(c)

SlotSpec == SlotInit /\ [][SlotNext]_vars

\* ------------------------------------------------------------------ claims
\* Positions of the worker in _main_loop outside _handle_active_session's
\* try/finally: a cycle has ended or not begun.
BetweenCycles == {"loop", "idle", "power_on", "wait", "not_found", "except", "done"}

\* C1: once the device was found and _read_barcodes entered, power_off has
\* been invoked by the time the worker is back in the main loop (or in its
\* exception handler), whatever ended the read loop.
C1_PowerOffAfterReadLoop == thread \in BetweenCycles => ~need_off

\* C1 witness: the read loop was left by an exception other than OSError and
\* the worker, now in the handler of the main loop, has invoked power_off.
C1_Witness == thread = "except" /\ ~need_off /\ last_power_op = "off"

\* C2: the worker is about to open the device file only after it invoked
\* power_on in this cycle, with no power_off since.
C2_PowerOnBeforeOpen == thread = "open" => cycle_on

\* C2 witness: the worker opens the device although its power_on failed.
C2_Witness == thread = "open" /\ cycle_on /\ power_state # "on"

\* The session callback was in place for the whole of the last report's
\* handling.
CallbackUnchanged == session_active /\ on_barcode # None /\ ~slot_written

\* C7: after an Enter report has been handled with the session callback
\* unchanged, the accumulator is empty and the callback was invoked exactly
\* once with the trimmed run and the current device name when that run is
\* not empty; an Enter after nothing (or only blanks) invokes no callback.
C7_EnterDelivers ==
    (last_enter /\ thread \in {"read_head", "read"}) =>
       /\ barcode_chars = <<>>
       /\ Strip(typed) = <<>> => delivered = <<>>
       /\ (Strip(typed) # <<>> /\ CallbackUnchanged) =>
            /\ Len(delivered) = 1
            /\ delivered[1].callback = on_barcode
            /\ delivered[1].entry =
                 [barcode |-> Strip(typed), device |-> device_name]

\* C7 witness: a run with a blank to trim was delivered once.
C7_Witness ==
    /\ last_enter /\ thread = "read_head" /\ CallbackUnchanged
    /\ typed # Strip(typed) /\ Len(delivered) = 1
    /\ device_name = Discovered.name

\* C4: no callback is invoked after the call that removed it from the slot
\* has returned.
C4_NoCallbackAfterRemoval ==
    \A i \in 1..Len(delivered) : ~delivered[i].removed

\* C8: with stop() returned and the worker ended, the last power operation
\* issued for a known id is power_on.
C8_LeftPoweredOn ==
    (main = "stopped" /\ thread = "done" /\ usb_device_id # None) =>
       last_power_op = "on"

\* C5: whenever the lock is free, the slot holds the id and the callback of
\* one activate_session call with the flag set, or all three cleared.
SlotConsistent ==
    \/ session_active /\ session_id \in SessionIds /\ on_barcode = Closure(session_id)
    \/ ~session_active /\ session_id = None /\ on_barcode = None

C5_SlotAtomic == lock = None => SlotConsistent

\* C5 witness: a call found the lock taken, waited, and the slot it then saw
\* released holds the other caller's session whole.
C5_Witness ==
    /\ lock = None /\ session_active /\ session_id = "S2"
    /\ \E c \in Callers : caller[c] = [pc |-> "a_lock", sid |-> "S1"]

\* The response of an iteration reports an active session: `active` is set
\* and a session id comes with it (pos_polling.py:145 tests both).
RemoteActive(it) == it.outcome = "ok" /\ it.remote_active /\ it.remote_id # None

\* C10: an iteration calls activate_session exactly when the remote session
\* is active with an id other than the tracked one, and deactivate_session
\* exactly when a session is tracked and the POS is unconfigured, no usable
\* response came, or the remote session is not active.
C10_CallsMatchRemote ==
    /\ iteration.call = "activate" <=>
         (RemoteActive(iteration) /\ iteration.remote_id # iteration.tracked)
    /\ iteration.call = "deactivate" <=>
         /\ iteration.tracked # None
         /\ \/ iteration.outcome \in {"not_configured", "failed"}
            \/ iteration.outcome = "ok" /\ ~RemoteActive(iteration)

\* C6: every POST made through a callback carries the id the callback was
\* installed with.
C6_PostCarriesInstalledId ==
    \A i \in 1..Len(delivered) : delivered[i].post.session_id = delivered[i].callback

\* The session is inactive, stop() has not been called, initial discovery is
\* over, the id is known and the last power_off succeeded.
StaysInactive ==
    /\ main = "serving" /\ thread \notin {"none", "init", "init_off"}
    /\ ~session_active /\ usb_device_id # None /\ last_off_ok

\* C3 as stated: once an active session was deactivated and the session
\* stays inactive, the worker invokes power_off after that deactivation and
\* the recorded state is "off" from some point on.
C3_InvokesPowerOff ==
    <>[](StaysInactive /\ since_deactivate # "none")
       => <>[](since_deactivate = "done" /\ power_state = "off")

\* C3: once the session stays inactive, from some point on the recorded
\* state is "off" and the worker only idles, so it issues no power_on; it
\* invokes power_off unless the recorded state is "off" already.
C3_EventuallyOff ==
    <>[]StaysInactive => <>[](power_state = "off" /\ thread \in {"loop", "idle"})

\* C3 witness: a session was deactivated, the worker has powered off since
\* and idles with the recorded state "off".
C3_Witness ==
    StaysInactive /\ since_deactivate = "done" /\ power_state = "off" /\ thread = "idle"

\* C9: once the running flag of a started worker is cleared, the worker
\* reaches its end; for the scanner worker and for the poll worker.
C9_WorkersExit ==
    /\ (~running /\ thread # "none") ~> (thread = "done")
    /\ (~pos_running /\ pos_thread # "none") ~> (pos_thread = "done")

\* C9 witness: the running flag was cleared with the worker in the read loop.
C9_Witness == ~running /\ thread \in ReadLoop /\ session_active

\* The status an iteration's outcome calls for.
StatusFor(it) ==
    CASE it.outcome = "not_configured" -> "not_configured"
      [] it.outcome = "failed" -> "error"
      [] RemoteActive(it) -> "session_active"
      [] OTHER -> "polling"

\* C11: once an iteration has ended (and stop() has not yet overwritten the
\* status), the status is the one its outcome calls for: not_configured,
\* error for a failed fetch, session_active, or polling.
C11_StatusFollowsIteration ==
    (iteration.outcome # "none" /\ pos_main # "stopped") =>
       status = StatusFor(iteration)

\* The details _fetch_session and the handler of _poll_loop give an error.
ErrorDetails ==
    {FetchErrorDetail(k) :
       k \in {"http_401", "http_404", "http_other", "unreachable", "not_json"}}
    \cup {"exception"}

\* C12: an iteration whose fetch gave no usable session object ends with
\* status error and an error detail, no tracked session id and no scanner
\* session.
C12_FailedFetchIsError ==
    (iteration.outcome = "failed" /\ pos_main # "stopped") =>
       /\ status = "error" /\ status_detail \in ErrorDetails
       /\ current_session_id = None /\ ~session_active

\* C13: the step in which a callback's POST fails leaves the scanner session
\* (flag, id, callback), the polling status, the tracked id and the poll
\* worker as they were, and the worker goes back to the head of the read loop.
C13_FailedPostKeepsSession ==
    [][(/\ thread = "invoke" /\ thread' # "invoke"
        /\ delivered' # <<>> /\ ~delivered'[Len(delivered')].sent)
       => /\ UNCHANGED <<sessionVars, status, status_detail, current_session_id,
                         pos_running, pos_thread>>
          /\ thread' = "read_head"]_vars

\* C13 witness: a POST has failed, the session is still active and tracked
\* with its callback, the poll worker is alive and the worker reads on.
C13_Witness ==
    /\ thread = "read_head" /\ Len(delivered) = 1 /\ ~delivered[1].sent
    /\ session_active /\ on_barcode = Closure(session_id)
    /\ status = "session_active" /\ current_session_id = session_id
    /\ pos_running /\ pos_thread # "done"

\* C14: a worker has ended only if its running flag was cleared.
C14_EndsOnlyByStop ==
    /\ thread = "done" => ~running
    /\ pos_thread = "done" => ~pos_running

\* C15: every sleep that ends a poll iteration is at least one second long.
C15_SleepsAtLeastOneSecond ==
    iteration.outcome # "none" => iteration.slept >= 1

\* C16: a power call uses the method the settings store holds when it is
\* made.
C16_CallUsesStoredMethod ==
    power_call.op # "none" => power_call.method = power_call.stored

\* The last power call ran the bind_unbind strategy (any method other than
\* "none" and "uhubctl").
ByBindUnbind == power_call.op # "none" /\ power_call.method \notin {"none", "uhubctl"}

\* C17: with bind_unbind, a call with a topology id writes it to bind
\* (power_on) or unbind (power_off) and returns true exactly when the write
\* succeeded or failed with no-such-device, so a call on a device already in
\* the target state returns true; without an id it returns false and writes
\* nothing.
C17_BindUnbind ==
    ByBindUnbind =>
      /\ power_call.commands = <<>>
      /\ IF power_call.id \in {None, ""}
         THEN ~power_call.result /\ power_call.writes = <<>>
         ELSE /\ power_call.writes =
                   <<[file |-> IF power_call.op = "on" THEN "bind" ELSE "unbind",
                      id |-> power_call.id]>>
              /\ power_call.result <=> power_call.w \in {"ok", "ENODEV"}
              /\ (power_call.was_bound <=> power_call.op = "on")
                   => (power_call.w # "EACCES" => power_call.result)

\* C17 witness: power_off on a device that was already unbound returned
\* true.
C17_Witness ==
    /\ ByBindUnbind /\ power_call.op = "off" /\ ~power_call.was_bound
    /\ power_call.w = "ENODEV" /\ power_call.result
    /\ power_call.writes # <<>>

\* The availability the last call worked with.
AvailableTo(c) == IF c.cached = None THEN c.on_path ELSE c.cached = "yes"

\* C18: with uhubctl, a call runs the command for every location in order,
\* whatever the earlier ones returned, and returns true exactly when all
\* succeeded; when the utility is unavailable it runs nothing and returns
\* false; the availability found by the first lookup is the one later calls
\* use.
C18_Uhubctl ==
    (power_call.op # "none" /\ power_call.method = "uhubctl") =>
      /\ power_call.writes = <<>>
      /\ uhubctl_available = (IF AvailableTo(power_call) THEN "yes" ELSE "no")
      /\ IF AvailableTo(power_call)
         THEN /\ power_call.commands =
                   [i \in 1..Len(Locations) |->
                      [location |-> Locations[i],
                       action |-> IF power_call.op = "on" THEN "1" ELSE "0"]]
              /\ power_call.result <=>
                   \A i \in 1..Len(Locations) : power_call.outs[i] = "ok"
         ELSE power_call.commands = <<>> /\ ~power_call.result

\* C18 witness: the first location's command failed, the second was still
\* run, with the availability taken from the cache against the PATH.
C18_Witness ==
    /\ power_call.op = "off" /\ power_call.method = "uhubctl"
    /\ power_call.cached = "yes" /\ ~power_call.on_path
    /\ power_call.outs[1] # "ok" /\ power_call.outs[2] = "ok"
    /\ Len(power_call.commands) = 2 /\ ~power_call.result

\* C19: with the method none, a call returns true for every id and does
\* nothing.
C19_NoneDoesNothing ==
    (power_call.op # "none" /\ power_call.method = "none") =>
      /\ power_call.result
      /\ power_call.writes = <<>> /\ power_call.commands = <<>>
      /\ uhubctl_available = power_call.cached

\* C19 witness: a call without a topology id returned true.
C19_Witness ==
    /\ power_call.op = "off" /\ power_call.method = "none"
    /\ power_call.id = None /\ power_call.result

\* C20: after a read that returned short or empty data the worker does not
\* go on to read from the device again: the read loop ends.
C20_ShortReadEndsLoop ==
    [][(short_read /\ thread = "read_head") => thread' # "read"]_vars

\* C21: the step in which the callback raises leaves the session slot, the
\* open device and the power state as they were, issues no power operation
\* and puts the worker back at the head of the read loop with an empty
\* accumulator; from then on the worker stays in the read loop, and the next
\* barcode it completes is handed to the installed callback.
C21_CallbackErrorSwallowed ==
    /\ [][(/\ thread = "invoke" /\ thread' # "invoke"
           /\ delivered' # <<>> /\ delivered'[Len(delivered')].raised)
          => /\ UNCHANGED <<sessionVars, deviceVars, powerVars, exc, running>>
             /\ thread' = "read_head" /\ barcode_chars' = <<>>]_vars
    /\ [](callback_raised => thread \in ReadLoop /\ ~exc /\ need_off)
    /\ [][(callback_raised /\ thread = "invoke" /\ thread' # "invoke")
          => /\ Len(delivered') = 1
             /\ delivered'[1].callback = callback
             /\ delivered'[1].entry = entry]_vars
    /\ []((/\ callback_raised /\ last_enter /\ thread = "read_head"
           /\ CallbackUnchanged /\ Strip(typed) # <<>>)
          => /\ Len(delivered) = 1
             /\ delivered[1].raised
             /\ delivered[1].callback = on_barcode
             /\ delivered[1].entry.barcode = Strip(typed))

\* C21 witness: after a callback raised, the worker has completed a later
\* barcode and fetched the installed callback to invoke it.
C21_Witness ==
    /\ callback_raised /\ thread = "invoke" /\ ~slot_written
    /\ session_active /\ callback = on_barcode /\ callback # None
    /\ entry.barcode = Strip(typed) /\ entry.barcode # <<>>
    /\ power_state = "on" /\ need_off

\* C22: test_connection returns for every response, with success exactly
\* when the body is a JSON object holding `active`.
C22_TestConnectionTotal ==
    test_result.response.kind # "none" =>
      /\ ~test_result.raised
      /\ test_result.success <=>
           /\ test_result.response.kind = "json"
           /\ test_result.response.type = "object"
           /\ test_result.response.has_active

\* C23: the accumulator holds, in order, the characters of the reports since
\* the previous Enter (key releases and unmapped keys adding nothing and
\* ending nothing), and the barcode built at an Enter is that run, trimmed.
C23_BarcodeIsTrimmedRun ==
    /\ (thread \in {"read_head", "read"} /\ ~last_enter) => barcode_chars = typed
    /\ thread = "fetch" =>
         /\ last_enter /\ barcode_chars = <<>>
         /\ entry.barcode = Strip(typed) /\ entry.barcode # <<>>
    /\ (thread \in {"read_head", "read"} /\ last_enter) =>
         /\ barcode_chars = <<>>
         /\ IF Strip(typed) = <<>> THEN delivered = <<>>
            ELSE Len(delivered) = 1 /\ delivered[1].entry.barcode = Strip(typed)

\* C23 witness: h, e, l, l, o with a key release or an unmapped key in
\* between, then Enter, gave the barcode "hello".
C23_Witness ==
    /\ thread = "fetch" /\ skipped
    /\ entry.barcode = <<"h", "e", "l", "l", "o">>

\* C24: a report is decoded with the shifted table exactly when bit 0x02 or
\* bit 0x20 of its modifier is set; the other modifier bits change nothing;
\* left shift with the keycode of 'a' gives 'A'; keycode 0 and Enter give no
\* character under every modifier.
C24_ShiftBitsSelectTable ==
    decoded.called =>
      LET m == decoded.modifier
          sc == decoded.scancode
          left == (m \div 2) % 2
          right == (m \div 32) % 2
          shift_only == 2 * left + 32 * right
      IN /\ sc \in {0, 40} => decoded.char = None
         /\ sc \notin {0, 40} =>
              decoded.char = IF left = 1 \/ right = 1
                             THEN SCANCODE_MAP_SHIFTED(sc)
                             ELSE SCANCODE_MAP(sc)
         /\ decoded.char = decode_report([modifier |-> shift_only, scancode |-> sc])
         /\ (m = 2 /\ sc = 4) => decoded.char = "A"

\* C24 witness: right shift together with other modifier bits, and the
\* keycode of 'a', decoded to 'A'.
C24_Witness ==
    /\ decoded.called /\ decoded.scancode = 4 /\ decoded.char = "A"
    /\ decoded.modifier = 32 + 64 + 1

\* The levels of an entry's path that hold both id files with a registered
\* pair of values, among the resolved path and the ancestors the walk may
\* visit.
MatchingLevels(e) ==
    IF e.link # "ok" THEN {}
    ELSE {i \in 1..Len(e.chain) :
            /\ i <= TRAVERSAL_DEPTH
            /\ e.chain[i].vendor \notin {Absent, ReadError, DecodeError}
            /\ e.chain[i].product \notin {Absent, ReadError, DecodeError}
            /\ \E d \in KNOWN_DEVICES :
                 /\ d.vendor_id = Lower(StripText(e.chain[i].vendor))
                 /\ d.product_id = Lower(StripText(e.chain[i].product))}

\* C25: with the root absent, empty or not listable, discover_devices
\* returns the empty list without raising and find_barcode_scanner none.
C25_EmptyTreeGivesEmptyList ==
    (found.called /\ (sysfs.root # "listable" \/ DOMAIN sysfs.entries = {})) =>
      /\ ~found.raised
      /\ found.devices = <<>>
      /\ found.scanner = None

\* C26: discover_devices returns, for exactly the entries with a registered
\* pair of ids within 10 levels, a device with path /dev/<entry name> and
\* the registered name and type.
C26_RegisteredEntriesReturned ==
    (found.called /\ sysfs.root = "listable") =>
      /\ ~found.raised
      /\ \A n \in DOMAIN sysfs.entries :
           MatchingLevels(sysfs.entries[n]) # {} <=>
             \E i \in 1..Len(found.devices) :
               /\ found.devices[i].hidraw_path = DevPath(n)
               /\ found.devices[i].name = "Datalogic Touch 65"
               /\ found.devices[i].device_type = "barcode_scanner"
      /\ \A i \in 1..Len(found.devices) :
           \E n \in DOMAIN sysfs.entries :
             found.devices[i].hidraw_path = DevPath(n)

\* C27: initial discovery makes at most 10 attempts; the first success
\* records path, name and topology id, is followed by one power_off with
\* that id and the session loop with connected = false; otherwise the
\* session loop is entered with the id unknown and no power call made.
C27_InitialDiscovery ==
    /\ [](thread = "init" => attempt < INITIAL_DISCOVERY_ATTEMPTS)
    /\ [][(thread = "init" /\ thread' # "init") =>
            \/ /\ thread' = "init_off"
               /\ device_path' = Discovered.hidraw_path
               /\ device_name' = Discovered.name
               /\ usb_device_id' = Discovered.usb_device_id
               /\ UNCHANGED powerVars
            \/ /\ thread' = "loop"
               /\ usb_device_id' = None
               /\ running => attempt = INITIAL_DISCOVERY_ATTEMPTS - 1
               /\ UNCHANGED powerVars]_vars
    /\ [][(thread = "init_off" /\ thread' # "init_off") =>
            /\ thread' = "loop"
            /\ usb_device_id = Discovered.usb_device_id
            /\ UNCHANGED usb_device_id
            /\ last_power_op' = "off"
            /\ connected' = FALSE]_vars

\* C28: an idle iteration invokes power_off exactly when the topology id is
\* known and the recorded state is not "off"; a failed call leaves the state
\* as it was, so the next idle iteration calls again; a successful one
\* records "off", and while the worker runs that record is left only by the
\* power_on of a cycle begun with a session active.
C28_IdlePowerOff ==
    /\ [][(thread = "idle" /\ thread' = "loop") =>
            /\ idle_off' \in {"ok", "failed"} <=>
                 (usb_device_id # None /\ power_state # "off")
            /\ idle_off' = "ok" => power_state' = "off" /\ last_power_op' = "off"
            /\ idle_off' = "failed" =>
                 power_state' = power_state /\ last_power_op' = "off"
            /\ idle_off' = "skipped" => UNCHANGED powerVars]_vars
    /\ [][(running /\ power_state = "off" /\ power_state' # "off") =>
            thread = "power_on"]_vars
    /\ [][(thread # "power_on" /\ thread' = "power_on") => session_active]_vars

\* C28 witness: with the id known and no session, an idle iteration's
\* power_off failed, the recorded state is still not "off", and the worker
\* is back at the head of the loop.
C28_Witness ==
    /\ thread = "loop" /\ idle_off = "failed" /\ ~session_active
    /\ usb_device_id # None /\ power_state # "off" /\ last_power_op = "off"
    /\ ~last_off_ok /\ running

\* C29: when the wait for the device ends without a device (after
\* MAX_DISCOVERY_ATTEMPTS empty discoveries, or earlier once the session or
\* the running flag is gone), the worker goes back to the head of the main
\* loop without opening the device, without a power call and without
\* touching the slot; no step of the worker writes the slot; and from the
\* head of the loop a still active session starts the power-on cycle again.
C29_NotFoundReturns ==
    /\ [](thread = "wait" => attempt < MAX_DISCOVERY_ATTEMPTS)
    /\ [][(thread = "wait" /\ thread' = "not_found") =>
            /\ (running /\ session_active) =>
                 (attempt = MAX_DISCOVERY_ATTEMPTS - 1 /\ ~dev_present)
            /\ UNCHANGED <<sessionVars, deviceVars, powerVars>>]_vars
    /\ [][(thread = "not_found" /\ thread' # "not_found") =>
            /\ thread' = "loop"
            /\ UNCHANGED <<sessionVars, deviceVars, powerVars>>]_vars
    /\ [][Worker => UNCHANGED sessionVars]_vars
    /\ [][(thread = "loop" /\ thread' # "loop" /\ running /\ session_active) =>
            thread' = "power_on"]_vars

\* C29 witness: the fifth discovery after power-on found nothing and the
\* worker is on its way back to the main loop, the session still active.
C29_Witness ==
    /\ thread = "not_found" /\ running /\ session_active /\ ~dev_present
    /\ cycle_on /\ last_power_op = "on" /\ ~connected

\* A discovery or an open that fails although the device is there: the step
\* into the handler of _main_loop, or from open() straight to the finally
\* block.
DiscoveryOrOpenFails ==
    \/ thread # "except" /\ thread' = "except"
    \/ thread = "open" /\ thread' = "finally"

\* The session stays active with the service running and, from some point
\* on, the device is present, discoverable and openable.
SessionStaysServable ==
    /\ <>[](main = "serving" /\ running /\ session_active /\ dev_present)
    /\ <>[][~DiscoveryOrOpenFails]_vars

\* C30: if the session stays active and the device is, from some point on,
\* discoverable and openable, the worker is in the read loop again and again
\* (so also after a disconnect in the middle of a read); it leaves the read
\* loop only through the power_off of the finally block and is in it only
\* after a power_on of the same cycle.
C30_EventuallyReads ==
    /\ SessionStaysServable => []<>(thread \in ReadLoop /\ connected)
    /\ [][(thread \in ReadLoop /\ thread' \notin ReadLoop) =>
            thread' = "finally"]_vars
    /\ [](thread \in ReadLoop => cycle_on)

\* C31: no report queued at open() reaches the read loop, so the barcode
\* built at an Enter is the trimmed run of the reports that arrived later;
\* flush_buffer returns the number of reports it took, those queued at
\* open() and those that arrived while it ran, and with nothing queued it
\* returns at once with the count unchanged.
C31_FlushDiscardsStale ==
    /\ ~flush_call.stale_read
    /\ flush_call.returned =>
         /\ flush_call.count = flush_call.stale + flush_call.late
         /\ \A i \in 1..Len(queue) : ~queue[i].stale
    /\ ~flush_call.returned => thread = "flush"
    /\ (thread \in {"read_head", "read"} /\ ~last_enter) => barcode_chars = typed
    /\ thread = "fetch" => entry.barcode = Strip(typed)

\* C31 witness: two reports were queued at open(), flush_buffer returned 2,
\* and a barcode typed afterwards is about to be delivered.
C31_Witness ==
    /\ flush_call.returned /\ flush_call.stale = 2 /\ flush_call.count = 2
    /\ thread = "fetch" /\ entry.barcode # <<>>

\* The directory of an entry's path that holds the id files.
IdLevel(e) ==
    CHOOSE i \in 1..Len(e.chain) :
      /\ e.chain[i].vendor # Absent
      /\ \A j \in 1..(i - 1) : e.chain[j].vendor = Absent

\* C32: the topology id is the name of the directory holding the id files
\* when it matches the pattern; else the name of the nearest directory above
\* it that matches, among the ten levels the walk visits (that directory
\* and its first nine ancestors); else the name of the directory holding
\* the id files.
C32_TopologyId ==
    found.called =>
      LET e == sysfs.entries["hidraw0"]
          d == IdLevel(e)
          own == e.chain[d].name
          above == {a \in 1..(TRAVERSAL_DEPTH - 1) :
                      /\ d + a <= Len(e.chain)
                      /\ USB_DEVICE_ID_RE_match(e.chain[d + a].name)}
          nearest == CHOOSE a \in above : \A b \in above : a <= b
      IN /\ ~found.raised /\ Len(found.devices) = 1
         /\ found.devices[1].usb_device_id =
              IF USB_DEVICE_ID_RE_match(own) THEN own
              ELSE IF above # {} THEN e.chain[d + nearest].name
              ELSE own

\* C32 witness: the id files are in a directory named like a HID device, its
\* 9th ancestor and the next are named like ports, and the id is the 9th's.
C32_Witness ==
    /\ found.called /\ Len(found.devices) = 1
    /\ found.devices[1].usb_device_id = Port112
    /\ sysfs.entries["hidraw0"].chain[1].name = HidDir
    /\ sysfs.entries["hidraw0"].chain[TRAVERSAL_DEPTH].name = Port112
    /\ sysfs.entries["hidraw0"].chain[TRAVERSAL_DEPTH + 1].name = Port31

\* C33: once stop() of the polling service has returned, the status is
\* stopped, no session id is tracked and the scanner has no active session.
C33_StoppedStaysStopped ==
    pos_main = "stopped" =>
      /\ status = "stopped"
      /\ current_session_id = None
      /\ ~session_active

\* C34: whenever no caller holds the lock, also after stop(), the session
\* flag is cleared exactly when the session id and the callback are null.
C34_FlagMatchesSlot ==
    lock = None =>
      (~session_active <=> (session_id = None /\ on_barcode = None))

\* ------------------------------------------------- start() and stop(), repeated
\* How many worker threads start() may create in one behaviour.
MaxWorkers == 3

\* The worker threads that have not returned from their target.
AliveWorkers == {i \in DOMAIN life_threads : life_threads[i] # "done"}

\* barcode_scanner.py:171-177 / pos_polling.py:111-113: where a new worker
\* begins. _main_loop runs _initial_discovery before its `while
\* self._running`; _poll_loop begins at its `while self._running`.
FirstPosition == IF observed = "scanner_life" THEN "busy" ELSE "head"

\* barcode_scanner.py:82-92 / pos_polling.py:61-70 start(): returns at once
\* when _running is set, else sets it, creates a thread and starts it.
L_Start ==
    /\ life_main = "idle"
    /\ IF life_running
       THEN /\ life_last' = "ignored"
            /\ UNCHANGED <<life_running, life_threads>>
       ELSE /\ Len(life_threads) < MaxWorkers
            /\ life_running' = TRUE
            /\ life_threads' = Append(life_threads, FirstPosition)
            /\ life_last' = "started"
    /\ UNCHANGED <<life_main, scannerVars, slotVars, pollVars, posSettings,
                   usbVars, test_result, skipped, decoded, discoveryVars,
                   flushVars, hubVars, wifiVars, idle_off, main, pos_main,
                   sideVars>>

\* barcode_scanner.py:98 / pos_polling.py:76 self._thread: the thread the
\* last start() created, "done" when there is none or it is not alive.
SelfThread ==
    IF life_threads = <<>> THEN "done" ELSE life_threads[Len(life_threads)]

\* barcode_scanner.py:96-97 / pos_polling.py:74-75 stop(), up to the join:
\* clears _running.
L_StopClear ==
    /\ life_main = "idle"
    /\ life_running' = FALSE
    /\ life_main' = "join"
    /\ UNCHANGED <<life_threads, life_last, scannerVars, slotVars, pollVars,
                   posSettings, usbVars, test_result, skipped, decoded,
                   discoveryVars, flushVars, hubVars, wifiVars, idle_off, main, pos_main,
                   sideVars>>

\* barcode_scanner.py:98-106 / pos_polling.py:76-82 stop(), from the join:
\* `if self._thread and self._thread.is_alive(): self._thread.join(timeout=5)`
\* returns when self._thread has ended, or after five seconds while it is
\* still inside an iteration; the rest of stop() follows either way.
L_StopJoin ==
    /\ life_main = "join"
    /\ \/ /\ SelfThread = "done"
          /\ life_last' = "stopped"
       \/ /\ SelfThread = "busy"
          /\ life_last' = "timed_out"
    /\ life_main' = "idle"
    /\ UNCHANGED <<life_running, life_threads, scannerVars, slotVars,
                   pollVars, posSettings, usbVars, test_result, skipped,
                   decoded, discoveryVars, flushVars, hubVars, wifiVars, idle_off, main,
                   pos_main, sideVars>>

\* barcode_scanner.py:180 / pos_polling.py:113 `while self._running:` of
\* worker i: enters an iteration, or leaves the loop and ends.
L_Head(i) ==
    /\ life_threads[i] = "head"
    /\ life_threads' =
         [life_threads EXCEPT ![i] = IF life_running THEN "busy" ELSE "done"]
    /\ UNCHANGED <<life_running, life_main, life_last, scannerVars, slotVars,
                   pollVars, posSettings, usbVars, test_result, skipped,
                   decoded, discoveryVars, flushVars, hubVars, wifiVars, idle_off, main,
                   pos_main, sideVars>>

\* barcode_scanner.py:181-192 / pos_polling.py:114-183: worker i finishes
\* the iteration (or, for the scanner, _initial_discovery) it is in and is
\* back at the loop's test.
L_Iterate(i) ==
    /\ life_threads[i] = "busy"
    /\ life_threads' = [life_threads EXCEPT ![i] = "head"]
    /\ UNCHANGED <<life_running, life_main, life_last, scannerVars, slotVars,
                   pollVars, posSettings, usbVars, test_result, skipped,
                   decoded, discoveryVars, flushVars, hubVars, wifiVars, idle_off, main,
                   pos_main, sideVars>>

LifeInit ==
    /\ Constructed /\ DefaultSettings /\ dev_present = TRUE
    /\ observed \in {"scanner_life", "poll_life"}

LifeNext ==
    \/ L_Start
    \/ L_StopClear
    \/ L_StopJoin
    \/ \E i \in DOMAIN life_threads : L_Head(i) \/ L_Iterate(i)

LifeSpec == LifeInit /\ [][LifeNext]_vars

\* C35: of the worker threads a service's start() calls created, at most
\* one is alive at any time, whatever the sequence of start() and stop().
C35_AtMostOneWorker == Cardinality(AliveWorkers) <= 1

\* C35, first part: a start() made while _running is set creates no thread.
C35_StartWhileRunning ==
    [][(L_Start /\ life_running) => life_threads' = life_threads]_vars

\* A step of the poll thread that ends an iteration of _poll_loop: the
\* thread is back at `while self._running`.
EndsIteration ==
    (P_Head \/ P_Fetch \/ P_Decide \/ P_Except) /\ pos_thread' = "head"

\* The polling service is the only caller of the scanner's session contract
\* here, so its last call was activate_session(sid, ...) exactly when the
\* slot holds an active session with that id.
LastCallActivated(sid) == session_active /\ session_id = sid

\* C36, second part, while stop() has not been called: at the end of an
\* iteration an id is tracked exactly when the service's last call on the
\* scanner activated that id.
C36_TrackedIsActivated ==
    [][(EndsIteration /\ pos_main' = "serving") =>
         (IF session_active' THEN current_session_id' = session_id'
                             ELSE current_session_id' = None)]_vars

\* C36: at the end of every iteration of the poll loop the status is
\* session_active exactly when an id is tracked, and an id is tracked
\* exactly when the service's last call on the scanner was activate_session
\* with that id.
C36_StatusTracksSession ==
    [][EndsIteration =>
         /\ status' = "session_active" <=> current_session_id' # None
         /\ \A sid \in SessionIds :
              current_session_id' = sid <=> LastCallActivated(sid)'
         /\ current_session_id' = None => ~session_active']_vars

\* ------------------------------------------- the worker and the hub's ports
\* usb_power.py:148-169: the ports after the commands of a call: a command
\* that returned 0 switched its location, any other left it as it was.
HubAfter(on, r, outs) ==
    [i \in 1..Len(Locations) |->
       IF /\ \E k \in DOMAIN r.commands : r.commands[k].location = Locations[i]
          /\ outs[i] = "ok"
       THEN on ELSE hub[i]]

\* barcode_scanner.py:343-359 _power_on (on = TRUE) / _power_off: the call
\* on the controller, what it does to the ports and to the driver binding,
\* and the recorded state, written only when the call returned True.
H_Power(on) ==
    \E outs \in [1..Len(Locations) -> CommandOutcomes] :
      \E w \in WriteOutcomes(on) :
      LET r == power(on, method, usb_device_id, is_uhubctl_available = "yes",
                     w, outs)
          after == HubAfter(on, r, outs)
          bind == r.writes # <<>> /\ w = "ok"
      IN
      /\ uhubctl_available' =
           IF method = "uhubctl" THEN is_uhubctl_available ELSE uhubctl_available
      /\ hub' = after
      /\ bound' = IF bind THEN on ELSE bound
      /\ power_state' =
           IF r.result THEN (IF on THEN "on" ELSE "off") ELSE power_state
      /\ on_effect' =
           IF on THEN on_effect \/ bind \/ (\E i \in DOMAIN hub : after[i] /\ ~hub[i])
           ELSE on_effect /\ ~r.result
      /\ last_power_op' = IF on THEN "on" ELSE "off"

H_Rest ==
    UNCHANGED <<running, device_path, device_name, last_off_ok, cycle_on,
                need_off, attempt, exc, readVars, dev_present, pollVars,
                posSettings, stored_method, method, on_path, power_call,
                test_result, skipped, decoded, discoveryVars, flushVars,
                lifeVars, wifiVars, idle_off, main, pos_main, sideVars>>

\* barcode_scanner.py:194-225 _initial_discovery: the scanner is found and
\* its id kept, or it is not found in ten attempts.
H_InitialDiscovery ==
    /\ thread = "init"
    /\ \/ /\ usb_device_id' = Discovered.usb_device_id
          /\ thread' = "init_off"
       \/ /\ UNCHANGED usb_device_id
          /\ thread' = "loop"
    /\ UNCHANGED <<connected, power_state, last_power_op, uhubctl_available,
                   bound, hubVars, slotVars>>
    /\ H_Rest

\* barcode_scanner.py:216 _initial_discovery: _power_off after the discovery.
H_InitialPowerOff ==
    /\ thread = "init_off"
    /\ H_Power(FALSE)
    /\ thread' = "loop"
    /\ UNCHANGED <<connected, usb_device_id, slotVars>>
    /\ H_Rest

\* barcode_scanner.py:180-188 _main_loop without a session: _power_off unless
\* the recorded state is "off" or no id is known; sleep.
H_Idle ==
    /\ thread = "loop" /\ ~session_active
    /\ IF power_state # "off" /\ usb_device_id # None
       THEN H_Power(FALSE)
       ELSE UNCHANGED <<power_state, last_power_op, uhubctl_available, bound,
                        hubVars>>
    /\ UNCHANGED <<thread, connected, usb_device_id, slotVars>>
    /\ H_Rest

\* barcode_scanner.py:228-232 _handle_active_session: _power_on, settle.
H_PowerOn ==
    /\ thread = "loop" /\ session_active
    /\ H_Power(TRUE)
    /\ thread' = "wait"
    /\ UNCHANGED <<connected, usb_device_id, slotVars>>
    /\ H_Rest

\* barcode_scanner.py:234-245 _handle_active_session: the scanner did not
\* appear (return), or it did and _read_barcodes is entered.
H_WaitForDevice ==
    /\ thread = "wait"
    /\ \/ /\ thread' = "loop"
          /\ UNCHANGED <<connected, usb_device_id>>
       \/ /\ session_active
          /\ usb_device_id' = Discovered.usb_device_id
          /\ connected' = TRUE
          /\ thread' = "read"
    /\ UNCHANGED <<power_state, last_power_op, uhubctl_available, bound,
                   hubVars, slotVars>>
    /\ H_Rest

\* barcode_scanner.py:247-253 _handle_active_session: _read_barcodes is left
\* (session over, device gone); the finally block calls _power_off.
H_Finally ==
    /\ thread = "read"
    /\ connected' = FALSE
    /\ H_Power(FALSE)
    /\ thread' = "loop"
    /\ UNCHANGED <<usb_device_id, slotVars>>
    /\ H_Rest

\* barcode_scanner.py:110-130: a session is activated or deactivated.
H_Session ==
    /\ IF session_active THEN deactivate_session
       ELSE activate_session("S1", Closure("S1"))
    /\ UNCHANGED <<thread, connected, usb_device_id, power_state,
                   last_power_op, uhubctl_available, bound, hubVars>>
    /\ H_Rest

\* The scanner as constructed, the ports powered and the device bound as
\* after boot, the controller with one of its methods.
HubInit ==
    /\ Constructed /\ dev_present = TRUE /\ observed = "hub"
    /\ configured = FALSE /\ poll_interval = DEFAULT_POLL_INTERVAL
    /\ stored_method \in Methods /\ method = stored_method

HubNext ==
    \/ ScannerStart \/ PathChanges
    \/ H_InitialDiscovery \/ H_InitialPowerOff \/ H_Idle \/ H_PowerOn
    \/ H_WaitForDevice \/ H_Finally \/ H_Session

HubSpec == HubInit /\ [][HubNext]_vars

\* C37: whenever the recorded power state is "off", no power_on has switched
\* a location on or bound the device since the last power_off that returned
\* True.
C37_OffMeansNothingSwitchedOn == power_state = "off" => ~on_effect

\* C37, the case named: an idle worker without a session and with the
\* recorded state "off" has no location left switched on by a power_on.
C37_IdleOffNothingPowered ==
    (thread = "loop" /\ ~session_active /\ power_state = "off") => ~on_effect

\* C37 for the methods other than uhubctl.
C37_OtherMethods ==
    (method # "uhubctl" /\ power_state = "off") => ~on_effect

\* ------------------------------------------------------------ WiFi manager
\* wifi_manager.py:58
FAILURE_THRESHOLD == 6

\* How many connectivity checks may fail in a row in one behaviour.
MaxFailures == 7

WifiRest ==
    UNCHANGED <<scannerVars, slotVars, pollVars, posSettings, usbVars,
                test_result, skipped, decoded, discoveryVars, flushVars,
                lifeVars, hubVars, idle_off, main, pos_main, sideVars>>

\* wifi_manager.py:398-407 stop_portal: shut the server down when there is
\* one, start the gateway container (docker compose start returns 0).
stop_portal == server' = FALSE /\ gateway' = TRUE

\* wifi_manager.py:300-317 stop_ap: nothing when the AP is not active, else
\* connection down and delete, _ap_active = False.
stop_ap == ap_active' = FALSE

\* wifi_manager.py:255-298 start_ap after its guard: the dnsmasq file, delete,
\* add and up; _ap_active is set when `connection up` returned 0, and left
\* alone when a command failed or raised.
ApCreation == \E ok \in BOOLEAN : ap_active' = (ok \/ ap_active)

\* wifi_manager.py:383-396 start_portal after the gateway was stopped: the
\* server is created and served, or binding port 80 raises OSError and the
\* gateway container is started again.
PortalCreation ==
    \E ok \in BOOLEAN :
      IF ok THEN server' = TRUE /\ UNCHANGED gateway
            ELSE gateway' = TRUE /\ UNCHANGED server

\* wifi_manager.py:421-425 run: the loop head; while _connecting is set it
\* sleeps two seconds and tests again.
M_Head ==
    /\ wifi_main = "head"
    /\ wifi_main' = IF connecting THEN "head" ELSE "check"
    /\ UNCHANGED <<ap_active, server, connecting, consecutive_failures,
                   wifi_thread, wifi_connected, gateway, failed_checks>>
    /\ WifiRest

\* A variant of M_Check whose successful check leaves the counter alone.
M_CheckKeepsCount ==
    /\ wifi_main = "check"
    /\ IF wifi_connected
       THEN /\ UNCHANGED consecutive_failures
            /\ failed_checks' = 0
            /\ wifi_main' = IF ap_active THEN "stop_portal" ELSE "head"
       ELSE /\ failed_checks < MaxFailures
            /\ consecutive_failures < MaxFailures
            /\ consecutive_failures' = consecutive_failures + 1
            /\ failed_checks' = failed_checks + 1
            /\ wifi_main' =
                 IF consecutive_failures' >= FAILURE_THRESHOLD /\ ~ap_active
                 THEN "start_ap" ELSE "head"
    /\ UNCHANGED <<ap_active, server, connecting, wifi_thread, wifi_connected,
                   gateway>>
    /\ WifiRest

\* wifi_manager.py:427-452 run: the connectivity check and what it decides.
\* A successful check resets the counter and goes on to stop the portal and
\* the AP when the AP is active; a failed one counts and goes on to start
\* them when the threshold is reached and the AP is not active.
M_Check ==
    /\ wifi_main = "check"
    /\ IF wifi_connected
       THEN /\ consecutive_failures' = 0
            /\ failed_checks' = 0
            /\ wifi_main' = IF ap_active THEN "stop_portal" ELSE "head"
       ELSE /\ failed_checks < MaxFailures
            /\ consecutive_failures' = consecutive_failures + 1
            /\ failed_checks' = failed_checks + 1
            /\ wifi_main' =
                 IF consecutive_failures' >= FAILURE_THRESHOLD /\ ~ap_active
                 THEN "start_ap" ELSE "head"
    /\ UNCHANGED <<ap_active, server, connecting, wifi_thread, wifi_connected,
                   gateway>>
    /\ WifiRest

\* wifi_manager.py:432-434 run: stop_portal().
M_StopPortal ==
    /\ wifi_main = "stop_portal"
    /\ stop_portal
    /\ wifi_main' = "stop_ap"
    /\ UNCHANGED <<ap_active, connecting, consecutive_failures, wifi_thread,
                   wifi_connected, failed_checks>>
    /\ WifiRest

\* wifi_manager.py:435 and 452 run: stop_ap(), then the sleep that ends the
\* iteration.
M_StopAp ==
    /\ wifi_main = "stop_ap"
    /\ stop_ap
    /\ wifi_main' = "head"
    /\ UNCHANGED <<server, connecting, consecutive_failures, wifi_thread,
                   wifi_connected, gateway, failed_checks>>
    /\ WifiRest

\* wifi_manager.py:448 and 252-253 run: start_ap() is called; it returns at
\* once when _ap_active is set.
M_StartAp ==
    /\ wifi_main = "start_ap"
    /\ wifi_main' = IF ap_active THEN "start_portal" ELSE "ap_create"
    /\ UNCHANGED <<ap_active, server, connecting, consecutive_failures,
                   wifi_thread, wifi_connected, gateway, failed_checks>>
    /\ WifiRest

\* wifi_manager.py:255-298 start_ap called by run: the creation sequence.
M_ApCreate ==
    /\ wifi_main = "ap_create"
    /\ ApCreation
    /\ wifi_main' = "start_portal"
    /\ UNCHANGED <<server, connecting, consecutive_failures, wifi_thread,
                   wifi_connected, gateway, failed_checks>>
    /\ WifiRest

\* wifi_manager.py:449-450 and 376-381 run: start_portal() is called; it returns
\* at once when there is a server, else it stops the gateway container.
M_StartPortal ==
    /\ wifi_main = "start_portal"
    /\ IF server
       THEN wifi_main' = "head" /\ UNCHANGED gateway
       ELSE wifi_main' = "portal_create" /\ gateway' = FALSE
    /\ UNCHANGED <<ap_active, server, connecting, consecutive_failures,
                   wifi_thread, wifi_connected, failed_checks>>
    /\ WifiRest

\* wifi_manager.py:383-396 start_portal called by run: the server creation.
M_PortalCreate ==
    /\ wifi_main = "portal_create"
    /\ PortalCreation
    /\ wifi_main' = "head"
    /\ UNCHANGED <<ap_active, connecting, consecutive_failures, wifi_thread,
                   wifi_connected, failed_checks>>
    /\ WifiRest

MainLoop ==
    \/ M_Head \/ M_Check \/ M_StopPortal \/ M_StopAp
    \/ M_StartAp \/ M_ApCreate \/ M_StartPortal \/ M_PortalCreate

\* wifi_manager.py:185-192 and 600 connect_async, called by the portal's
\* handler of POST /api/wifi/connect: the wifi-connect thread is started.
ConnectAsync ==
    /\ server
    /\ wifi_thread = "none"
    /\ wifi_thread' = "begin"
    /\ UNCHANGED <<ap_active, server, connecting, consecutive_failures,
                   wifi_main, wifi_connected, gateway, failed_checks>>
    /\ WifiRest

\* wifi_manager.py:196-199 _do_connect: _connecting = True, settle.
T_Begin ==
    /\ wifi_thread = "begin"
    /\ connecting' = TRUE
    /\ wifi_thread' = "stop_portal"
    /\ UNCHANGED <<ap_active, server, consecutive_failures, wifi_main,
                   wifi_connected, gateway, failed_checks>>
    /\ WifiRest

\* wifi_manager.py:202 _do_connect: stop_portal().
T_StopPortal ==
    /\ wifi_thread = "stop_portal"
    /\ stop_portal
    /\ wifi_thread' = "stop_ap"
    /\ UNCHANGED <<ap_active, connecting, consecutive_failures, wifi_main,
                   wifi_connected, failed_checks>>
    /\ WifiRest

\* wifi_manager.py:203-204 _do_connect: stop_ap(), sleep.
T_StopAp ==
    /\ wifi_thread = "stop_ap"
    /\ stop_ap
    /\ wifi_thread' = "connect"
    /\ UNCHANGED <<server, connecting, consecutive_failures, wifi_main,
                   wifi_connected, gateway, failed_checks>>
    /\ WifiRest

\* wifi_manager.py:206-236 _do_connect: nmcli dev wifi connect.  Return code
\* 0: the WiFi is connected and the counter reset; any other outcome (return
\* code, timeout, exception) leaves both.
T_Connect ==
    /\ wifi_thread = "connect"
    /\ \E ok \in BOOLEAN :
         IF ok THEN wifi_connected' = TRUE /\ consecutive_failures' = 0
               ELSE UNCHANGED <<wifi_connected, consecutive_failures>>
    /\ wifi_thread' = "finally"
    /\ UNCHANGED <<ap_active, server, connecting, wifi_main, gateway,
                   failed_checks>>
    /\ WifiRest

\* wifi_manager.py:238-239 _do_connect: finally, _connecting = False.
T_Finally ==
    /\ wifi_thread = "finally"
    /\ connecting' = FALSE
    /\ wifi_thread' = "recheck"
    /\ UNCHANGED <<ap_active, server, consecutive_failures, wifi_main,
                   wifi_connected, gateway, failed_checks>>
    /\ WifiRest

\* wifi_manager.py:241-243 _do_connect: the check of the finally
\* block; connected, the thread ends; not connected, it calls start_ap().
T_Recheck ==
    /\ wifi_thread = "recheck"
    /\ wifi_thread' = IF wifi_connected THEN "none" ELSE "start_ap"
    /\ UNCHANGED <<ap_active, server, connecting, consecutive_failures,
                   wifi_main, wifi_connected, gateway, failed_checks>>
    /\ WifiRest

\* wifi_manager.py:244 and 252-253 _do_connect: start_ap() and its guard.
T_StartAp ==
    /\ wifi_thread = "start_ap"
    /\ wifi_thread' = IF ap_active THEN "start_portal" ELSE "ap_create"
    /\ UNCHANGED <<ap_active, server, connecting, consecutive_failures,
                   wifi_main, wifi_connected, gateway, failed_checks>>
    /\ WifiRest

\* wifi_manager.py:255-298 start_ap called by _do_connect: the creation
\* sequence.
T_ApCreate ==
    /\ wifi_thread = "ap_create"
    /\ ApCreation
    /\ wifi_thread' = "start_portal"
    /\ UNCHANGED <<server, connecting, consecutive_failures, wifi_main,
                   wifi_connected, gateway, failed_checks>>
    /\ WifiRest

\* wifi_manager.py:245-246 and 376-381 _do_connect: sleep, start_portal().
T_StartPortal ==
    /\ wifi_thread = "start_portal"
    /\ IF server
       THEN wifi_thread' = "none" /\ UNCHANGED gateway
       ELSE wifi_thread' = "portal_create" /\ gateway' = FALSE
    /\ UNCHANGED <<ap_active, server, connecting, consecutive_failures,
                   wifi_main, wifi_connected, failed_checks>>
    /\ WifiRest

\* wifi_manager.py:383-396 start_portal called by _do_connect: the server
\* creation, after which the thread ends.
T_PortalCreate ==
    /\ wifi_thread = "portal_create"
    /\ PortalCreation
    /\ wifi_thread' = "none"
    /\ UNCHANGED <<ap_active, connecting, consecutive_failures, wifi_main,
                   wifi_connected, failed_checks>>
    /\ WifiRest

ConnectThread ==
    \/ T_Begin \/ T_StopPortal \/ T_StopAp \/ T_Connect \/ T_Finally
    \/ T_Recheck \/ T_StartAp \/ T_ApCreate \/ T_StartPortal \/ T_PortalCreate

\* wifi_manager.py:100-114 is_wifi_connected: what nmcli reports changes (the
\* network goes away, a known network comes into reach).
WlanChanges ==
    /\ wifi_connected' = ~wifi_connected
    /\ UNCHANGED <<ap_active, server, connecting, consecutive_failures,
                   wifi_main, wifi_thread, gateway, failed_checks>>
    /\ WifiRest

WifiInit ==
    /\ Constructed /\ DefaultSettings /\ dev_present = TRUE
    /\ observed = "wifi"

WifiNext == MainLoop \/ ConnectAsync \/ ConnectThread \/ WlanChanges

WifiSpec == WifiInit /\ [][WifiNext]_vars

\* WifiSpec with both threads scheduled: a step of run() or of the connect
\* thread that can be taken is taken.
WifiLiveSpec ==
    WifiInit /\ [][WifiNext]_vars /\ WF_vars(MainLoop) /\ WF_vars(ConnectThread)

\* C38: run() goes on to start_ap only from a failed check that brought the
\* checks failed in a row (and the counter) to FAILURE_THRESHOLD or more
\* with the AP not active, and every successful check sets the counter to 0.
C38_ApOnlyAfterThreshold ==
    /\ [][(wifi_main # "start_ap" /\ wifi_main' = "start_ap") =>
            /\ ~wifi_connected
            /\ failed_checks' >= FAILURE_THRESHOLD
            /\ consecutive_failures' >= FAILURE_THRESHOLD
            /\ ~ap_active]_vars
    /\ [][(wifi_main = "check" /\ wifi_main' # "check" /\ wifi_connected) =>
            consecutive_failures' = 0]_vars
    /\ [](wifi_main \in {"ap_create", "start_ap"} =>
            failed_checks >= FAILURE_THRESHOLD)

C38_Witness ==
    /\ wifi_main = "ap_create"
    /\ consecutive_failures = FAILURE_THRESHOLD
    /\ failed_checks > FAILURE_THRESHOLD

\* C39: whenever the WiFi is connected from some point on, the AP and the
\* portal end up stopped and the gateway container running.
C39_ConnectedStopsPortal ==
    (<>[]wifi_connected) => <>[](~ap_active /\ ~server /\ gateway)

\* C40: run() and the connect thread are never both inside start_ap's
\* creation sequence or both inside start_portal's server creation, and
\* while a connect thread exists run() starts and stops nothing.
C40_CreationNotConcurrent ==
    /\ ~(wifi_main = "ap_create" /\ wifi_thread = "ap_create")
    /\ ~(wifi_main = "portal_create" /\ wifi_thread = "portal_create")
    /\ wifi_thread # "none" => wifi_main \in {"head", "check"}

\* C40, first part alone.
C40_NoTwoCreations ==
    /\ ~(wifi_main = "ap_create" /\ wifi_thread = "ap_create")
    /\ ~(wifi_main = "portal_create" /\ wifi_thread = "portal_create")

====
